---- MODULE Spec2Model ----
(***************************************************************************)
(* Model of the RoutePlanner backend's authentication pipeline             *)
(* (backend/src/middleware/auth.ts) over the Redis helpers                 *)
(* (backend/src/config/redis.ts), the error classes                        *)
(* (backend/src/middleware/errorHandler.ts) and the JWT configuration      *)
(* (backend/src/config/index.ts).                                          *)
(*                                                                         *)
(* Optional values (null / undefined) are sequences of length 0 or 1.      *)
(* A token is the string a client presents; JwtDecode gives its payload    *)
(* and SignedWith the secret value its signature was made with.            *)
(* Time is in whole seconds, as Math.floor(Date.now() / 1000).             *)
(*                                                                         *)
(* Spec is the pipeline with blacklistToken, verifyRefreshToken, the       *)
(* clock and a deactivation; ChainSpec is the request chain of app.ts      *)
(* (authentication, requireRole / requireEmailVerification, errorHandler)  *)
(* over every condition of the user row; TokenSpec is generateTokens and   *)
(* the verification of the tokens it issued.                               *)
(***************************************************************************)
EXTENDS Integers, Sequences, FiniteSets, TLC

VARIABLES
    now,          \* wall clock, seconds
    ticks,        \* number of clock advances so far
    cfg,          \* config.jwt: the two signing secrets
    db,           \* persistent user store: the set of user rows
    redis,        \* Redis: key -> [val, expireAt]
    req,          \* per handler slot: the running call, its position and locals
    blCalls,      \* number of blacklistToken calls made
    blReturned,   \* valid tokens for which a blacklistToken call has returned normally
    blStored,     \* tokens whose revocation marker blacklistToken has written
    userCached,   \* the record getUser wrote to the user cache less than
                  \* USER_CACHE_TTL ago, and when
    proc          \* the server process: its connections, its HTTP server, its
                  \* shutdown and its exit

vars == <<now, ticks, cfg, db, redis, req, blCalls, blReturned, blStored, userCached, proc>>

----------------------------------------------------------------------------
(* Bounds of the model *)

MaxTicks == 2
MaxBlacklistCalls == 1
ShortExp == 1
WriteDelay == 2

(* Program constants *)

USER_CACHE_TTL == 300
JWT_EXPIRES_IN == 3600
JWT_REFRESH_EXPIRES_IN == 604800

\* The handler slots.  Calls are taken one after another; every await of a
\* call is a step of its own, between which time passes and the stores change.
Reqs == {"h1"}

Null == <<>>
Some(x) == <<x>>

----------------------------------------------------------------------------
(* errorHandler.ts: error classes and the JWT error mapping *)

AppError(name, message, statusCode, errorCode) ==
    [name |-> name, message |-> message, statusCode |-> statusCode,
     errorCode |-> errorCode]

AuthenticationError(message) ==
    AppError("AuthenticationError", message, 401, "AUTHENTICATION_ERROR")

AuthorizationError(message) ==
    AppError("AuthorizationError", message, 403, "AUTHORIZATION_ERROR")

\* An error thrown by the Redis client or by Prisma: not an AppError.
ClientError == [name |-> "Error", message |-> "connection lost", statusCode |-> 0,
                errorCode |-> ""]

\* error instanceof AppError
IsAppError(error) == error.statusCode # 0

\* formatErrorResponse(error, req): the body of the error response; code is
\* set only for an AppError that has an errorCode.
formatErrorResponse(error) ==
    LET isAppError == IsAppError(error)
        statusCode == IF isAppError THEN error.statusCode ELSE 500 IN
    [message |-> IF error.message # "" THEN error.message ELSE "Internal server error",
     statusCode |-> statusCode,
     code |-> IF isAppError /\ error.errorCode # "" THEN Some(error.errorCode) ELSE Null]

\* errorHandler answering 500 for every error
errorHandler_AlwaysServerError(error) ==
    [status |-> 500, json |-> [error |-> formatErrorResponse(error)]]

\* errorHandler(error, req, res, next): res.status(statusCode).json(errorResponse)
errorHandler(error) ==
    LET isAppError == IsAppError(error)
        statusCode == IF isAppError THEN error.statusCode ELSE 500 IN
    [status |-> statusCode, json |-> [error |-> formatErrorResponse(error)]]

handleJWTError(errName) ==
    IF errName = "JsonWebTokenError" THEN AuthenticationError("Invalid token")
    ELSE IF errName = "TokenExpiredError" THEN AuthenticationError("Token expired")
    ELSE AuthenticationError("Authentication failed")

----------------------------------------------------------------------------
(* Tokens: jsonwebtoken as used by auth.ts *)

\* The token strings clients present.  tA, tS: access tokens of u1 (tS expires
\* early); tU: access token of a user the store does not hold; tR1, tR2:
\* refresh tokens of u1 signed with secret value s1 resp. s2; tF: a token
\* whose signature matches no secret; tM: not a JWT at all.
Tokens == {"tA", "tS", "tU", "tR1", "tR2", "tF", "tM"}

SecretValues == {"s1", "s2"}

Payload(userId, email, role, tokenType, exp) ==
    [userId |-> userId, email |-> email, role |-> role, tokenType |-> tokenType,
     iat |-> exp - JWT_EXPIRES_IN, exp |-> exp]

\* The users generateTokens is called for, and the lifetimes config.jwt can
\* name (JWT_EXPIRE, JWT_REFRESH_EXPIRE).
TokenKinds == {"access", "refresh"}

IssueUsers ==
    {[id |-> i, email |-> e, role |-> ro] :
        i \in {"u1", "u2"}, e \in {"u1@example", "a@example"}, ro \in {"user", "admin"}}

ExpiresInValues == {ShortExp, JWT_EXPIRES_IN, JWT_REFRESH_EXPIRES_IN}

\* The values the clock takes.
ClockValues ==
    {a + b * USER_CACHE_TTL : a \in 0..MaxTicks, b \in 0..MaxTicks}

\* jwt.sign(payload, secret, {expiresIn}) at time t: the token string carries
\* the payload with iat and exp, and a signature made with the secret.
JwtSign(payload, secret, expiresIn, t) ==
    "jwt." \o payload.userId \o "." \o payload.email \o "." \o payload.role
           \o "." \o payload.tokenType \o "." \o ToString(t)
           \o "." \o ToString(t + expiresIn) \o ".sig-" \o secret

\* What a token string made by jwt.sign carries: its payload and the secret
\* of its signature; null for any other string.
Signable ==
    {[payload |-> [userId |-> u.id, email |-> u.email, role |-> u.role,
                   tokenType |-> k],
      secret |-> s, expiresIn |-> e, iat |-> t] :
        u \in IssueUsers, k \in TokenKinds, s \in SecretValues,
        e \in ExpiresInValues, t \in ClockValues}

ParseSigned(token) ==
    LET hits == {x \in Signable :
                    JwtSign(x.payload, x.secret, x.expiresIn, x.iat) = token} IN
    IF hits = {} THEN Null
    ELSE LET x == CHOOSE y \in hits : TRUE IN
         Some([payload |-> [userId |-> x.payload.userId, email |-> x.payload.email,
                            role |-> x.payload.role,
                            tokenType |-> x.payload.tokenType,
                            iat |-> x.iat, exp |-> x.iat + x.expiresIn],
               secret |-> x.secret])

\* jwt.decode(token): the payload without any verification, null if the
\* string is not a JWT.
JwtDecode(token) ==
    CASE token = "tA"  -> Some(Payload("u1", "u1@old.example", "user", "access", JWT_EXPIRES_IN))
      [] token = "tS"  -> Some(Payload("u1", "u1@old.example", "user", "access", ShortExp))
      [] token = "tU"  -> Some(Payload("u2", "u2@example", "user", "access", JWT_EXPIRES_IN))
      [] token = "tR1" -> Some(Payload("u1", "u1@old.example", "user", "refresh", JWT_EXPIRES_IN))
      [] token = "tR2" -> Some(Payload("u1", "u1@old.example", "user", "refresh", JWT_EXPIRES_IN))
      [] token = "tF"  -> Some(Payload("u1", "u1@old.example", "admin", "access", JWT_EXPIRES_IN))
      [] token \in {"tM", ""} -> Null
      [] OTHER -> IF ParseSigned(token) = Null THEN Null
                  ELSE Some(ParseSigned(token)[1].payload)

\* The secret value a token's signature was made with ("none": no secret
\* of this deployment).
SignedWith(token) ==
    CASE token \in {"tA", "tS", "tU", "tR1"} -> "s1"
      [] token = "tR2" -> "s2"
      [] token \in {"tF", "tM", ""} -> "none"
      [] OTHER -> IF ParseSigned(token) = Null THEN "none"
                  ELSE ParseSigned(token)[1].secret

JwtOk(payload) == [ok |-> TRUE, payload |-> Some(payload), errName |-> ""]
JwtErr(errName) == [ok |-> FALSE, payload |-> Null, errName |-> errName]

\* jwt.verify(token, secret) at clock time t: structure, then signature,
\* then expiry (clockTimestamp >= exp is expired).
JwtVerify(token, secret, t) ==
    LET d == JwtDecode(token) IN
    IF d = Null THEN JwtErr("JsonWebTokenError")
    ELSE IF SignedWith(token) # secret THEN JwtErr("JsonWebTokenError")
    ELSE IF t >= d[1].exp THEN JwtErr("TokenExpiredError")
    ELSE JwtOk(d[1])

\* The result of an async function: resolved with a value or rejected
\* with an error.
Resolved(v) == [ok |-> TRUE, value |-> Some(v), error |-> Null]
Rejected(e) == [ok |-> FALSE, value |-> Null, error |-> Some(e)]

verifyToken(token, c, t) ==
    LET r == JwtVerify(token, c.secret, t) IN
    IF r.ok THEN Resolved(r.payload[1]) ELSE Rejected(handleJWTError(r.errName))

verifyRefreshToken(token, c, t) ==
    LET r == JwtVerify(token, c.refreshSecret, t) IN
    IF r.ok THEN Resolved(r.payload[1]) ELSE Rejected(handleJWTError(r.errName))

\* generateTokens signing both tokens with config.jwt.secret
generateTokens_OneSecret(user, c, t) ==
    [accessToken |->
        JwtSign([userId |-> user.id, email |-> user.email, role |-> user.role,
                 tokenType |-> "access"], c.secret, c.expiresIn, t),
     refreshToken |->
        JwtSign([userId |-> user.id, email |-> user.email, role |-> user.role,
                 tokenType |-> "refresh"], c.secret, c.refreshExpiresIn, t)]

\* generateTokens(user) at time t
generateTokens(user, c, t) ==
    LET accessTokenPayload ==
            [userId |-> user.id, email |-> user.email, role |-> user.role,
             tokenType |-> "access"]
        refreshTokenPayload ==
            [userId |-> user.id, email |-> user.email, role |-> user.role,
             tokenType |-> "refresh"]
    IN  [accessToken |-> JwtSign(accessTokenPayload, c.secret, c.expiresIn, t),
         refreshToken |-> JwtSign(refreshTokenPayload, c.refreshSecret,
                                  c.refreshExpiresIn, t)]

\* generateTokens signs access tokens with config.jwt.secret and refresh
\* tokens with config.jwt.refreshSecret: the tokens of the universe that
\* this deployment can have issued.
IssuedUnder(token, c) ==
    /\ JwtDecode(token) # Null
    /\ SignedWith(token) =
         (IF JwtDecode(token)[1].tokenType = "access" THEN c.secret ELSE c.refreshSecret)

\* What a client can present: a token this deployment issued, or one it
\* never signed.
Presentable(c) == {t \in Tokens : IssuedUnder(t, c) \/ SignedWith(t) = "none"}

----------------------------------------------------------------------------
(* redis.ts: the cache helpers over the Redis client *)

\* JavaScript values that pass through the cache.
JsNull == [type |-> "null", b |-> FALSE, o |-> Null]
JsBool(b) == [type |-> "boolean", b |-> b, o |-> Null]
JsObj(o) == [type |-> "object", b |-> FALSE, o |-> Some(o)]

\* !v in JavaScript
Falsy(v) == v.type = "null" \/ (v.type = "boolean" /\ ~v.b)

\* JSON.stringify / JSON.parse: the stored text carries the value.
JSONstringify(v) == [text |-> v]
JSONparse(s) == s.text

\* GET key at time t: a key is gone once its expiry time is reached.
RedisGet(store, key, t) ==
    IF key \in DOMAIN store /\ t < store[key].expireAt
    THEN Some(store[key].val) ELSE Null

\* SETEX key ttl value at time t
RedisSetEx(store, key, ttl, val, t) ==
    [k \in DOMAIN store \cup {key} |->
        IF k = key THEN [val |-> val, expireAt |-> t + ttl] ELSE store[k]]

\* Keys whose expiry time has been reached are removed by Redis.
RedisExpire(store, t) ==
    [k \in {x \in DOMAIN store : t < store[x].expireAt} |-> store[k]]

\* setCache passing expireInSeconds on as milliseconds
setCache_TtlInMillis(store, key, value, expireInSeconds, t, clientOk) ==
    IF clientOk
    THEN [ok |-> TRUE,
          store |-> RedisSetEx(store, key, expireInSeconds * 1000, JSONstringify(value), t)]
    ELSE [ok |-> FALSE, store |-> store]

\* setCache(key, value, expireInSeconds): resolves with the store updated,
\* or rethrows the client's error (clientOk = FALSE) with the store unchanged.
\* Both callers pass a positive expireInSeconds, so the SETEX branch is taken.
setCache(store, key, value, expireInSeconds, t, clientOk) ==
    IF clientOk
    THEN [ok |-> TRUE, store |-> RedisSetEx(store, key, expireInSeconds, JSONstringify(value), t)]
    ELSE [ok |-> FALSE, store |-> store]

\* getCache(key): the parsed value, null on a miss, and null as well when
\* the client throws (clientOk = FALSE): getCache never throws.
getCache(store, key, t, clientOk) ==
    IF ~clientOk THEN JsNull
    ELSE LET value == RedisGet(store, key, t) IN
         IF value = Null THEN JsNull ELSE JSONparse(value[1])

----------------------------------------------------------------------------
(* auth.ts: helpers *)

BLACKLIST_PREFIX == "blacklist:token:"
USER_CACHE_PREFIX == "user:"

BlacklistKey(token) == <<BLACKLIST_PREFIX, token>>

\* UserKey built with the prefix of the revocation markers
UserKey_RevocationPrefix(userId) == <<BLACKLIST_PREFIX, userId>>

UserKey(userId) == <<USER_CACHE_PREFIX, userId>>

\* isTokenBlacklisted treating a failed lookup as blacklisted
isTokenBlacklisted_FailClosed(store, token, t, clientOk) ==
    LET blacklisted == getCache(store, BlacklistKey(token), t, clientOk) IN
    ~clientOk \/ blacklisted = JsBool(TRUE)

\* isTokenBlacklisted(token): blacklisted === true; a failed lookup gives
\* false because getCache turns it into null.
isTokenBlacklisted(store, token, t, clientOk) ==
    LET blacklisted == getCache(store, BlacklistKey(token), t, clientOk) IN
    blacklisted = JsBool(TRUE)

\* Request headers and cookies.  authorization: absent, or a scheme and
\* the text after "<scheme> ".  cookies: undefined (no cookie parser ran),
\* or the parsed jar with or without accessToken.
NoAuthHeader == [present |-> FALSE, bearer |-> FALSE, rest |-> ""]
BasicHeader == [present |-> TRUE, bearer |-> FALSE, rest |-> "dXNlcjpwdw=="]
BearerHeader(token) == [present |-> TRUE, bearer |-> TRUE, rest |-> token]

NoCookies == [parsed |-> FALSE, accessToken |-> Null]
EmptyJar == [parsed |-> TRUE, accessToken |-> Null]
CookieJar(token) == [parsed |-> TRUE, accessToken |-> Some(token)]

\* extractToken without the startsWith('Bearer ') test
extractToken_AnyScheme(headers, cookies) ==
    IF headers.present
    THEN Some(headers.rest)
    ELSE IF cookies.parsed /\ cookies.accessToken # Null /\ cookies.accessToken[1] # ""
    THEN cookies.accessToken
    ELSE Null

\* extractToken(req): string | null
extractToken(headers, cookies) ==
    IF headers.present /\ headers.bearer
    THEN Some(headers.rest)
    ELSE IF cookies.parsed /\ cookies.accessToken # Null /\ cookies.accessToken[1] # ""
    THEN cookies.accessToken
    ELSE Null

\* !token for string | null
NoToken(tok) == tok = Null \/ tok[1] = ""

\* prisma.user.findUnique({where: {id}, select: {...}})
UserRow(id, email, role, isEmailVerified, isActive) ==
    [id |-> id, email |-> email, role |-> role,
     isEmailVerified |-> isEmailVerified, isActive |-> isActive]

findUnique(rows, userId) ==
    LET hit == {u \in rows : u.id = userId} IN
    IF hit = {} THEN Null ELSE Some(CHOOSE u \in hit : TRUE)

\* req.user as the middlewares build it from the resolved record
Identity(user) ==
    [id |-> user.id, email |-> user.email, role |-> user.role,
     isEmailVerified |-> user.isEmailVerified]

----------------------------------------------------------------------------
(* index.ts: the Server process, with connectDatabase / disconnectDatabase
   (config/database.ts) and connectRedis / disconnectRedis (config/redis.ts) *)

\* setTimeout(..., 30000) of gracefulShutdown, in seconds
SHUTDOWN_TIMEOUT == 30

\* The process before server.start() is called.  log is what the process
\* has done so far, in order; seqs holds, per callback handed to
\* server.close, where its run stands.
NotStarted ==
    [phase |-> "created", dbConn |-> "closed", redisConn |-> "closed",
     listening |-> FALSE,   \* server.listen has been called and close has not
     handlers |-> FALSE,    \* the SIGTERM / SIGINT handlers are installed
     closing |-> FALSE,     \* server.close has been called
     drained |-> FALSE,     \* the HTTP server's connections have ended
     seqs |-> <<>>, timers |-> {}, signals |-> 0, signalAt |-> Null,
     exit |-> Null, exitAt |-> 0, killed |-> FALSE, log |-> <<>>]

Alive(p) == p.exit = Null /\ ~p.killed

Logged(p, event) == [p EXCEPT !.log = Append(@, event)]

\* process.exit(code) at time t
ProcessExit(p, code, t) ==
    [Logged(p, "exit") EXCEPT !.exit = Some(code), !.exitAt = t, !.listening = FALSE]

\* Server.start up to its first await: initializeConnections calls
\* connectDatabase.
serverStart(p) == [Logged(p, "connectDatabase") EXCEPT !.phase = "connectDatabase"]

\* connectDatabase has settled (prisma.$connect, then the test query): a
\* failure is rethrown up to the catch of start, which exits with 1;
\* otherwise initializeConnections calls connectRedis.
afterConnectDatabase(p, connected, tested, t) ==
    LET p1 == [p EXCEPT !.dbConn = IF connected THEN "open" ELSE "closed"] IN
    IF connected /\ tested
    THEN [Logged(Logged(p1, "database connected"), "connectRedis")
             EXCEPT !.phase = "connectRedis"]
    ELSE ProcessExit(Logged(p1, "connection failed"), 1, t)

\* afterConnectRedis going on to listen when connectRedis failed
afterConnectRedis_ListensAnyway(p, connected, pinged, t) ==
    LET p1 == [p EXCEPT !.redisConn = IF connected THEN "open" ELSE "closed"]
        p2 == IF connected /\ pinged THEN Logged(p1, "redis connected")
              ELSE Logged(p1, "connection failed") IN
    [Logged(p2, "listen") EXCEPT !.phase = "running", !.listening = TRUE,
                                 !.handlers = TRUE]

\* connectRedis has settled (redisClient.connect, then ping): a failure is
\* rethrown up to the catch of start, which exits with 1; otherwise start
\* calls server.listen and installs the signal handlers.
afterConnectRedis(p, connected, pinged, t) ==
    LET p1 == [p EXCEPT !.redisConn = IF connected THEN "open" ELSE "closed"] IN
    IF connected /\ pinged
    THEN [Logged(Logged(p1, "redis connected"), "listen")
             EXCEPT !.phase = "running", !.listening = TRUE, !.handlers = TRUE]
    ELSE ProcessExit(Logged(p1, "connection failed"), 1, t)

\* gracefulShutdown without the timer that forces the exit
gracefulShutdown_NoTimer(p, t) ==
    [Logged(p, "signal") EXCEPT
        !.listening = FALSE, !.closing = TRUE,
        !.seqs = Append(@, "registered"),
        !.signals = @ + 1,
        !.signalAt = IF @ = Null THEN Some(t) ELSE @]

\* gracefulShutdown(signal) at time t: server.close(callback) stops the
\* server accepting and keeps the callback for when its connections have
\* ended; setTimeout arms the forced exit.
gracefulShutdown(p, t) ==
    [Logged(p, "signal") EXCEPT
        !.listening = FALSE, !.closing = TRUE,
        !.seqs = Append(@, "registered"),
        !.timers = @ \cup {t + SHUTDOWN_TIMEOUT},
        !.signals = @ + 1,
        !.signalAt = IF @ = Null THEN Some(t) ELSE @]

\* The callback i of server.close runs up to its first await: it calls
\* disconnectDatabase.
closeCallback(p, i) ==
    [Logged(p, "HTTP server closed") EXCEPT !.seqs[i] = "disconnectDatabase"]

\* disconnectDatabase has settled in the callback i.  A failure goes to the
\* catch, which exits with 1.  Otherwise disconnectRedis is called: with
\* redisClient.isOpen it awaits quit(), without it returns at once and
\* the callback exits with 0.
afterDisconnectDatabase(p, i, ok, isOpen, t) ==
    IF ~ok THEN ProcessExit(Logged(p, "disconnect failed"), 1, t)
    ELSE LET p1 == Logged([p EXCEPT !.dbConn = "closed"], "Database disconnected") IN
         IF isOpen
         THEN [p1 EXCEPT !.redisConn = "quitting", !.seqs[i] = "disconnectRedis"]
         ELSE ProcessExit(Logged([p1 EXCEPT !.seqs[i] = "done"], "Redis disconnected"),
                          0, t)

\* redisClient.quit() has settled in the callback i: exit with 0, or with 1
\* from the catch when it failed.
afterDisconnectRedis(p, i, ok, t) ==
    IF ~ok THEN ProcessExit(Logged(p, "disconnect failed"), 1, t)
    ELSE ProcessExit(Logged([p EXCEPT !.redisConn = "closed", !.seqs[i] = "done"],
                            "Redis disconnected"), 0, t)

\* redisClient.isOpen: true for a connected client, false for a closed
\* one; while a quit is in flight the value is the client library's, and
\* either is possible.
IsOpenValues(p) ==
    CASE p.redisConn = "open" -> {TRUE}
      [] p.redisConn = "closed" -> {FALSE}
      [] OTHER -> BOOLEAN

----------------------------------------------------------------------------
(* State *)

\* A handler slot before the call has run: a request no middleware has
\* touched yet, or a call of blacklistToken / verifyRefreshToken on token.
Fresh(op, headers, cookies, token) ==
    [pc |-> "idle", op |-> op, headers |-> headers, cookies |-> cookies,
     token |-> token, userId |-> "", user |-> Null, ttl |-> 0,
     ttlAt |-> 0,             \* Math.floor(Date.now() / 1000) when ttl was computed
     cookieHeader |-> Null,   \* the accessToken the Cookie header of the request carries
     startedAt |-> 0,         \* when the request arrived, for the requests timed from a deactivation
     reqUser |-> Null,        \* req.user
     roles |-> <<>>,          \* the roles requireRole was built with
     res |-> Null,            \* the response errorHandler sent
     route |-> "",            \* the path of the endpoint the request was routed to
     handled |-> FALSE,       \* the endpoint's handler has executed
     upstream |-> FALSE,      \* the handler has called the upstream map service
     nextCalls |-> 0,         \* calls of next so far
     nextErr |-> Null,        \* the argument of the last next call
     inCatch |-> FALSE,       \* the last next call was made in the catch block
     settled |-> "",          \* how the returned promise settled
     thrown |-> "",           \* the message of the error it rejected with
     tokenType |-> "",        \* the kind in the payload it resolved with
     trips |-> 0,             \* external round trips issued
     blacklisted |-> Null,    \* what isTokenBlacklisted returned
     verified |-> Null,       \* whether verifyToken resolved
     source |-> "",           \* where getUser found the record
     lookupFailed |-> FALSE,  \* the revocation lookup failed
     cacheFailed |-> FALSE,   \* the user-cache lookup failed
     cachedBefore |-> Null,   \* the record cached less than USER_CACHE_TTL before the lookup
     dbFailed |-> FALSE,      \* prisma.user.findUnique threw
     setCacheFailed |-> FALSE,
     marked |-> FALSE,        \* the token had a revocation marker at the call
     validAtStart |-> FALSE,  \* jwt.verify with the access secret held at the call
     afterBl |-> FALSE]       \* began after blacklistToken(token) had returned

Idle == Fresh("authMiddleware", NoAuthHeader, NoCookies, "")

\* The tokens callers hand to blacklistToken and to verifyRefreshToken.
BlacklistInputs(c) == Presentable(c) \ {"tU", "tF"}
RefreshInputs(c) == Presentable(c)

\* The requests clients send: every authorization header without cookies,
\* and requests without an authorization header with each kind of cookie jar.
RequestInputs(c) ==
    LET hs == {NoAuthHeader, BasicHeader, BearerHeader("")}
              \cup {BearerHeader(t) : t \in Presentable(c)}
    IN  {<<h, NoCookies>> : h \in hs}
        \cup {<<NoAuthHeader, j>> : j \in {EmptyJar, CookieJar("tA")}}
        \cup {<<BearerHeader(""), CookieJar("tA")>>}

\* The accessToken cookie the client sent, given req.cookies.  A cookie
\* parser mounted before the middleware puts the cookies of the Cookie
\* header into req.cookies; app.ts mounts none, and then req.cookies is
\* undefined whatever the Cookie header carries.  (The requests sent with
\* an Authorization header and no parsed cookies carry no cookie.)
CookieHeaders(headers, cookies) ==
    IF cookies.parsed THEN {cookies.accessToken}
    ELSE IF headers.present THEN {Null}
    ELSE {Null, Some("tA")}

TickSteps == {1, USER_CACHE_TTL}

Init ==
    /\ now = 0
    /\ ticks = 0
    /\ cfg \in {[secret |-> "s1", refreshSecret |-> x] : x \in SecretValues}
    /\ db = {UserRow("u1", "u1@example", "user", TRUE, TRUE)}
    /\ redis = <<>>
    /\ req = [r \in Reqs |-> Idle]
    /\ blCalls = 0
    /\ blReturned = {}
    /\ blStored = {}
    /\ userCached = Null
    /\ proc = NotStarted

----------------------------------------------------------------------------
(* auth.ts: authMiddleware and optionalAuthMiddleware *)

CallNext(rq, err) ==
    [rq EXCEPT !.nextCalls = @ + 1, !.nextErr = err, !.pc = "done",
               !.settled = "resolved"]

\* catch (error) { next(error); }
authCatch(rq, error) == CallNext([rq EXCEPT !.inCatch = TRUE], Some(error))

\* optionalAuthMiddleware's catch passing the error on, as authMiddleware's does
optionalCatch_Propagates(rq, error) ==
    CallNext([rq EXCEPT !.inCatch = TRUE], Some(error))

\* catch (error) { logger.debug(...); next(); }
optionalCatch(rq, error) == CallNext([rq EXCEPT !.inCatch = TRUE], Null)

\* The call of isTokenBlacklisted(token) that both middlewares await first
AwaitBlacklist(rq, token, c, t, returned) ==
    [rq EXCEPT !.token = token, !.pc = "isTokenBlacklisted", !.trips = @ + 1,
               !.validAtStart = JwtVerify(token, c.secret, t).ok,
               !.afterBl = token \in returned]

\* authMiddleware up to its first await
authBegin(rq, c, t, returned) ==
    LET token == extractToken(rq.headers, rq.cookies) IN
    IF NoToken(token)
    THEN authCatch(rq, AuthenticationError("Access token required"))
    ELSE AwaitBlacklist(rq, token[1], c, t, returned)

\* optionalAuthMiddleware up to its first await
optionalBegin(rq, c, t, returned) ==
    LET token == extractToken(rq.headers, rq.cookies) IN
    IF NoToken(token)
    THEN CallNext(rq, Null)
    ELSE AwaitBlacklist(rq, token[1], c, t, returned)

\* AwaitGetUser with a second revocation lookup before getUser
AwaitGetUser_LooksUpTwice(rq, payload) ==
    [rq EXCEPT !.userId = payload.userId, !.pc = "getCache", !.trips = @ + 2]

\* The call of getUser(payload.userId) that both middlewares await
AwaitGetUser(rq, payload) ==
    [rq EXCEPT !.userId = payload.userId, !.pc = "getCache", !.trips = @ + 1]

\* authVerify without the tokenType test
authVerify_NoKindCheck(rq, c, t) ==
    LET v == verifyToken(rq.token, c, t)
        r1 == [rq EXCEPT !.verified = Some(v.ok)] IN
    IF ~v.ok THEN authCatch(r1, v.error[1])
    ELSE AwaitGetUser(r1, v.value[1])

\* authMiddleware: verify the token and ensure it is an access token
authVerify(rq, c, t) ==
    LET v == verifyToken(rq.token, c, t)
        r1 == [rq EXCEPT !.verified = Some(v.ok)] IN
    IF ~v.ok THEN authCatch(r1, v.error[1])
    ELSE IF v.value[1].tokenType # "access"
    THEN authCatch(r1, AuthenticationError("Invalid token type"))
    ELSE AwaitGetUser(r1, v.value[1])

\* authAfterBlacklist ignoring the answer of the revocation lookup
authAfterBlacklist_SkipsRevocation(rq, isBlacklisted, c, t) ==
    authVerify([rq EXCEPT !.blacklisted = Some(isBlacklisted)], c, t)

\* authMiddleware from the blacklist answer to the call of getUser
authAfterBlacklist(rq, isBlacklisted, c, t) ==
    LET r1 == [rq EXCEPT !.blacklisted = Some(isBlacklisted)] IN
    IF isBlacklisted
    THEN authCatch(r1, AuthenticationError("Token has been revoked"))
    ELSE authVerify(r1, c, t)

\* optionalAuthMiddleware: verify the token; only an access token goes on
\* to getUser
optionalVerify(rq, c, t) ==
    LET v == verifyToken(rq.token, c, t)
        r1 == [rq EXCEPT !.verified = Some(v.ok)] IN
    IF ~v.ok THEN optionalCatch(r1, v.error[1])
    ELSE IF v.value[1].tokenType = "access"
    THEN AwaitGetUser(r1, v.value[1])
    ELSE CallNext(r1, Null)

\* optionalAuthMiddleware from the blacklist answer to the call of getUser
optionalAfterBlacklist(rq, isBlacklisted, c, t) ==
    LET r1 == [rq EXCEPT !.blacklisted = Some(isBlacklisted)] IN
    IF isBlacklisted
    THEN CallNext(r1, Null)
    ELSE optionalVerify(r1, c, t)

\* authMiddleware after getUser has settled
authAfterGetUser(rq, res) ==
    IF ~res.ok THEN authCatch(rq, res.error[1])
    ELSE LET user == res.value[1] IN
         IF ~user.isActive
         THEN authCatch(rq, AuthenticationError("User account is deactivated"))
         ELSE CallNext([rq EXCEPT !.reqUser = Some(Identity(user))], Null)

\* optionalAfterGetUser attaching the user without the isActive test
optionalAfterGetUser_AttachesInactive(rq, res) ==
    IF ~res.ok THEN optionalCatch(rq, res.error[1])
    ELSE CallNext([rq EXCEPT !.reqUser = Some(Identity(res.value[1]))], Null)

\* optionalAuthMiddleware after getUser has settled
optionalAfterGetUser(rq, res) ==
    IF ~res.ok THEN optionalCatch(rq, res.error[1])
    ELSE LET user == res.value[1] IN
         IF user.isActive
         THEN CallNext([rq EXCEPT !.reqUser = Some(Identity(user))], Null)
         ELSE CallNext(rq, Null)

AfterGetUser(rq, res) ==
    IF rq.op = "authMiddleware" THEN authAfterGetUser(rq, res)
    ELSE optionalAfterGetUser(rq, res)

\* getUser's catch: an AuthenticationError is rethrown, anything else
\* becomes 'Failed to authenticate user'.
getUserCatch(error) ==
    IF error.name = "AuthenticationError" THEN Rejected(error)
    ELSE Rejected(AuthenticationError("Failed to authenticate user"))

\* getUserAfterCache going to the persistent store also on a hit
getUserAfterCache_AlwaysDb(rq, cached) ==
    [rq EXCEPT !.pc = "findUnique", !.trips = @ + 1]

\* getUser once getCache has answered: a hit returns the cached record, a
\* miss goes on to the persistent store.
getUserAfterCache(rq, cached) ==
    IF ~Falsy(cached)
    THEN AfterGetUser([rq EXCEPT !.source = "cache", !.user = cached.o],
                      Resolved(cached.o[1]))
    ELSE [rq EXCEPT !.pc = "findUnique", !.trips = @ + 1]

\* getUser once prisma.user.findUnique has settled
getUserAfterDb(rq, dbOk, found) ==
    IF ~dbOk
    THEN AfterGetUser([rq EXCEPT !.dbFailed = TRUE], getUserCatch(ClientError))
    ELSE IF found = Null
    THEN AfterGetUser(rq, getUserCatch(AuthenticationError("User not found")))
    ELSE [rq EXCEPT !.user = found, !.source = "db", !.pc = "setCache",
                    !.trips = @ + 1]

\* getUser once setCache(cacheKey, user, 300) has settled
getUserAfterSetCache(rq, setOk) ==
    IF setOk THEN AfterGetUser(rq, Resolved(rq.user[1]))
    ELSE AfterGetUser([rq EXCEPT !.setCacheFailed = TRUE], getUserCatch(ClientError))

----------------------------------------------------------------------------
(* auth.ts: blacklistToken and the refresh verification *)

\* blacklistToken up to its await: the remaining lifetime of the token,
\* 0 when nothing is to be stored (undecodable, no exp, or expired).
\* blacklistTtl storing the marker for the token's whole lifetime
blacklistTtl_WholeLifetime(token, t) ==
    LET decoded == JwtDecode(token) IN
    IF decoded # Null /\ decoded[1].exp # 0 /\ decoded[1].exp - t > 0
    THEN decoded[1].exp - decoded[1].iat
    ELSE 0

blacklistTtl(token, t) ==
    LET decoded == JwtDecode(token) IN
    IF decoded # Null /\ decoded[1].exp # 0 /\ decoded[1].exp - t > 0
    THEN decoded[1].exp - t
    ELSE 0

blacklistBegin(rq, c, t) ==
    LET ttl == blacklistTtl(rq.token, t)
        r1 == [rq EXCEPT !.validAtStart = JwtVerify(rq.token, c.secret, t).ok] IN
    IF ttl > 0
    THEN [r1 EXCEPT !.pc = "setCache", !.ttl = ttl, !.ttlAt = t, !.trips = @ + 1]
    ELSE [r1 EXCEPT !.pc = "done", !.settled = "resolved"]

\* blacklistToken once setCache has settled: the catch block logs a
\* failure and the function returns normally either way.
blacklistAfterSetCache(rq, setOk) ==
    IF setOk THEN [rq EXCEPT !.pc = "done", !.settled = "resolved"]
    ELSE [rq EXCEPT !.pc = "done", !.settled = "resolved", !.setCacheFailed = TRUE]

\* A call of verifyRefreshToken(token), as the refresh path makes it
refreshVerify(rq, c, t, store) ==
    LET res == verifyRefreshToken(rq.token, c, t)
        r1 == [rq EXCEPT !.pc = "done",
                         !.validAtStart = JwtVerify(rq.token, c.secret, t).ok,
                         !.marked = isTokenBlacklisted(store, rq.token, t, TRUE)] IN
    IF res.ok
    THEN [r1 EXCEPT !.settled = "resolved", !.tokenType = res.value[1].tokenType]
    ELSE [r1 EXCEPT !.settled = "rejected", !.thrown = res.error[1].message]

----------------------------------------------------------------------------
(* Actions *)

\* The record written to the user cache less than USER_CACHE_TTL seconds
\* before time t, if there is one.
CachedWithinTtl(written, t) ==
    IF written # Null /\ t < written[1].at + USER_CACHE_TTL
    THEN Some(written[1].user) ELSE Null

\* ... for the user userId
CachedFor(written, userId, t) ==
    LET c == CachedWithinTtl(written, t) IN
    IF c # Null /\ c[1].id = userId THEN c ELSE Null

\* A client sends a request through authMiddleware.
authMiddlewareStart(r) ==
    /\ req[r].pc = "idle"
    /\ \E in \in RequestInputs(cfg) : \E sent \in CookieHeaders(in[1], in[2]) :
         req' = [req EXCEPT ![r] =
                    authBegin([Fresh("authMiddleware", in[1], in[2], "")
                                  EXCEPT !.cookieHeader = sent],
                              cfg, now, blReturned)]
    /\ UNCHANGED <<now, ticks, cfg, db, redis, blCalls, blReturned, blStored, userCached, proc>>

\* A client sends a request through optionalAuthMiddleware.
optionalAuthMiddlewareStart(r) ==
    /\ req[r].pc = "idle"
    /\ \E in \in RequestInputs(cfg) : \E sent \in CookieHeaders(in[1], in[2]) :
         req' = [req EXCEPT ![r] =
                    optionalBegin([Fresh("optionalAuthMiddleware", in[1], in[2], "")
                                      EXCEPT !.cookieHeader = sent],
                                  cfg, now, blReturned)]
    /\ UNCHANGED <<now, ticks, cfg, db, redis, blCalls, blReturned, blStored, userCached, proc>>

\* The revocation lookup answers (or fails) and the middleware runs on to
\* its next await.
BlacklistReply(r) ==
    /\ req[r].pc = "isTokenBlacklisted"
    /\ \E clientOk \in BOOLEAN :
         LET isBlacklisted == isTokenBlacklisted(redis, req[r].token, now, clientOk)
             rq == [req[r] EXCEPT !.lookupFailed = ~clientOk] IN
         req' = [req EXCEPT ![r] =
                    IF rq.op = "authMiddleware"
                    THEN authAfterBlacklist(rq, isBlacklisted, cfg, now)
                    ELSE optionalAfterBlacklist(rq, isBlacklisted, cfg, now)]
    /\ UNCHANGED <<now, ticks, cfg, db, redis, blCalls, blReturned, blStored, userCached, proc>>

\* getUser: the user-cache lookup answers (or fails).
GetUserCacheReply(r) ==
    /\ req[r].pc = "getCache"
    /\ \E clientOk \in BOOLEAN :
         LET rq == [req[r] EXCEPT !.cacheFailed = ~clientOk,
                                  !.cachedBefore = CachedFor(userCached, req[r].userId, now)] IN
         req' = [req EXCEPT ![r] =
                    getUserAfterCache(rq,
                        getCache(redis, UserKey(rq.userId), now, clientOk))]
    /\ UNCHANGED <<now, ticks, cfg, db, redis, blCalls, blReturned, blStored, userCached, proc>>

\* getUser: the persistent store answers (or fails).
GetUserDbReply(r) ==
    /\ req[r].pc = "findUnique"
    /\ \E dbOk \in BOOLEAN :
         req' = [req EXCEPT ![r] =
                    getUserAfterDb(req[r], dbOk, findUnique(db, req[r].userId))]
    /\ UNCHANGED <<now, ticks, cfg, db, redis, blCalls, blReturned, blStored, userCached, proc>>

\* getUser: the write-back to the user cache settles.
GetUserSetCacheReply(r) ==
    /\ req[r].pc = "setCache"
    /\ req[r].op \in {"authMiddleware", "optionalAuthMiddleware"}
    /\ \E clientOk \in BOOLEAN :
         LET w == setCache(redis, UserKey(req[r].userId), JsObj(req[r].user[1]),
                           USER_CACHE_TTL, now, clientOk) IN
         /\ redis' = w.store
         /\ req' = [req EXCEPT ![r] = getUserAfterSetCache(req[r], w.ok)]
         /\ userCached' = IF w.ok THEN Some([at |-> now, user |-> req[r].user[1]])
                          ELSE userCached
    /\ UNCHANGED <<now, ticks, cfg, db, blCalls, blReturned, blStored, proc>>

\* A caller (logout) calls blacklistToken(token).
BlacklistTokenStart(r) ==
    /\ req[r].pc = "idle"
    /\ blCalls < MaxBlacklistCalls
    /\ \E token \in BlacklistInputs(cfg) :
         LET rq == blacklistBegin(Fresh("blacklistToken", NoAuthHeader, NoCookies, token),
                                  cfg, now) IN
         /\ req' = [req EXCEPT ![r] = rq]
         /\ blReturned' = IF rq.pc = "done" /\ rq.validAtStart
                          THEN blReturned \cup {token} ELSE blReturned
    /\ blCalls' = blCalls + 1
    /\ UNCHANGED <<now, ticks, cfg, db, redis, blStored, userCached, proc>>

\* The revocation-store write of blacklistToken settles.
BlacklistTokenSetReply(r) ==
    /\ req[r].pc = "setCache"
    /\ req[r].op = "blacklistToken"
    /\ \E clientOk \in BOOLEAN :
         LET w == setCache(redis, BlacklistKey(req[r].token), JsBool(TRUE),
                           req[r].ttl, now, clientOk)
             rq == blacklistAfterSetCache(req[r], w.ok) IN
         /\ redis' = w.store
         /\ req' = [req EXCEPT ![r] = rq]
         /\ blReturned' = IF rq.settled = "resolved" /\ rq.validAtStart
                          THEN blReturned \cup {rq.token} ELSE blReturned
         /\ blStored' = IF w.ok THEN blStored \cup {rq.token} ELSE blStored
    /\ UNCHANGED <<now, ticks, cfg, db, blCalls, userCached, proc>>

\* The refresh path verifies a presented token with verifyRefreshToken.
VerifyRefreshTokenCall(r) ==
    /\ req[r].pc = "idle"
    /\ \E token \in RefreshInputs(cfg) :
         req' = [req EXCEPT ![r] =
                    refreshVerify(Fresh("verifyRefreshToken", NoAuthHeader, NoCookies,
                                        token), cfg, now, redis)]
    /\ UNCHANGED <<now, ticks, cfg, db, redis, blCalls, blReturned, blStored, userCached, proc>>

\* The call is over; the slot takes the next one.
CallEnd(r) ==
    /\ req[r].pc = "done"
    /\ req' = [req EXCEPT ![r] = Idle]
    /\ UNCHANGED <<now, ticks, cfg, db, redis, blCalls, blReturned, blStored, userCached, proc>>

\* An administrator deactivates a user in the persistent store.
DeactivateUser ==
    /\ \E u \in db :
         /\ u.isActive
         /\ db' = (db \ {u}) \cup {[u EXCEPT !.isActive = FALSE]}
    /\ UNCHANGED <<now, ticks, cfg, redis, req, blCalls, blReturned, blStored, userCached, proc>>

\* Time passes; Redis drops the keys whose time has come.
Tick ==
    /\ ticks < MaxTicks
    /\ \E d \in TickSteps :
         /\ now' = now + d
         /\ redis' = RedisExpire(redis, now + d)
         /\ userCached' = IF CachedWithinTtl(userCached, now + d) = Null
                          THEN Null ELSE userCached
    /\ ticks' = ticks + 1
    /\ UNCHANGED <<cfg, db, req, blCalls, blReturned, blStored, proc>>

Next ==
    \/ \E r \in Reqs : authMiddlewareStart(r)
    \/ \E r \in Reqs : optionalAuthMiddlewareStart(r)
    \/ \E r \in Reqs : BlacklistReply(r)
    \/ \E r \in Reqs : GetUserCacheReply(r)
    \/ \E r \in Reqs : GetUserDbReply(r)
    \/ \E r \in Reqs : GetUserSetCacheReply(r)
    \/ \E r \in Reqs : BlacklistTokenStart(r)
    \/ \E r \in Reqs : BlacklistTokenSetReply(r)
    \/ \E r \in Reqs : VerifyRefreshTokenCall(r)
    \/ \E r \in Reqs : CallEnd(r)
    \/ DeactivateUser
    \/ Tick

Spec == Init /\ [][Next]_vars

----------------------------------------------------------------------------
(* The request chain: authentication, then the authorization middlewares,
   and errorHandler for any error passed to next *)

Middlewares == {"authMiddleware", "optionalAuthMiddleware"}

Roles == {"user", "admin"}

\* The role lists requireRole is built with: requireAdmin, requireUserOrAdmin,
\* a single other role, and no role at all.
RoleLists == {<<"admin">>, <<"user", "admin">>, <<"user">>, <<>>}

\* roles.includes(role)
Includes(roles, role) == \E i \in 1..Len(roles) : roles[i] = role

\* roles.join(', ')
RECURSIVE Join(_)
Join(roles) ==
    IF roles = <<>> THEN ""
    ELSE IF Len(roles) = 1 THEN roles[1]
    ELSE roles[1] \o ", " \o Join(Tail(roles))

Gates == {"requireRole", "requireEmailVerification"}

\* Express calls the next handler of the chain with the same req.
NextHandler(rq, op) ==
    [rq EXCEPT !.op = op, !.pc = "running", !.nextCalls = 0, !.nextErr = Null,
               !.settled = ""]

\* requireRole answering 403 also when req.user is unset
requireRole_ForbiddenWhenUnset(roles, rq) ==
    IF rq.reqUser = Null \/ ~Includes(roles, rq.reqUser[1].role)
    THEN CallNext([rq EXCEPT !.roles = roles],
                  Some(AuthorizationError("Access denied. Required roles: "
                                          \o Join(roles))))
    ELSE CallNext([rq EXCEPT !.roles = roles], Null)

\* requireRole(...roles)(req, res, next)
requireRole(roles, rq) ==
    LET r1 == [rq EXCEPT !.roles = roles] IN
    IF r1.reqUser = Null
    THEN CallNext(r1, Some(AuthenticationError("Authentication required")))
    ELSE IF ~Includes(roles, r1.reqUser[1].role)
    THEN CallNext(r1, Some(AuthorizationError("Access denied. Required roles: "
                                              \o Join(roles))))
    ELSE CallNext(r1, Null)

\* requireEmailVerification without the isEmailVerified test
requireEmailVerification_NoVerifiedCheck(rq) ==
    IF rq.reqUser = Null
    THEN CallNext(rq, Some(AuthenticationError("Authentication required")))
    ELSE CallNext(rq, Null)

\* requireEmailVerification(req, res, next)
requireEmailVerification(rq) ==
    IF rq.reqUser = Null
    THEN CallNext(rq, Some(AuthenticationError("Authentication required")))
    ELSE IF ~rq.reqUser[1].isEmailVerified
    THEN CallNext(rq, Some(AuthorizationError("Email verification required")))
    ELSE CallNext(rq, Null)

\* The user rows the store can hold for u1.
UserRows ==
    {UserRow("u1", "u1@example", ro, v, a) :
        ro \in Roles, v \in BOOLEAN, a \in BOOLEAN}

\* The chain starts at time 0 or when the short-lived token has expired,
\* with the user row of u1 in any condition, and with the revocation store
\* empty or holding the marker blacklistToken("tA") wrote at time 0.
InitChain ==
    /\ now \in {0, ShortExp}
    /\ ticks = 0
    /\ cfg \in {[secret |-> "s1", refreshSecret |-> x] : x \in SecretValues}
    /\ db \in {{u} : u \in UserRows}
    /\ \E revoked \in BOOLEAN :
         /\ redis = IF revoked
                    THEN setCache(<<>>, BlacklistKey("tA"), JsBool(TRUE),
                                  blacklistTtl("tA", 0), 0, TRUE).store
                    ELSE <<>>
         /\ blCalls = IF revoked THEN 1 ELSE 0
         /\ blReturned = IF revoked THEN {"tA"} ELSE {}
         /\ blStored = IF revoked THEN {"tA"} ELSE {}
    /\ req = [r \in Reqs |-> Idle]
    /\ userCached = Null
    /\ proc = NotStarted

\* The middleware before called next() with no error: the route's
\* requireRole(...roles) runs.
RequireRoleRun(r) ==
    /\ req[r].pc = "done"
    /\ req[r].op \in Middlewares \cup Gates
    /\ req[r].nextCalls = 1 /\ req[r].nextErr = Null
    /\ \E roles \in RoleLists :
         req' = [req EXCEPT ![r] = requireRole(roles, NextHandler(req[r], "requireRole"))]
    /\ UNCHANGED <<now, ticks, cfg, db, redis, blCalls, blReturned, blStored, userCached, proc>>

\* The middleware before called next() with no error: the route's
\* requireEmailVerification runs.
RequireEmailVerificationRun(r) ==
    /\ req[r].pc = "done"
    /\ req[r].op \in Middlewares \cup Gates
    /\ req[r].nextCalls = 1 /\ req[r].nextErr = Null
    /\ req' = [req EXCEPT ![r] =
                  requireEmailVerification(NextHandler(req[r], "requireEmailVerification"))]
    /\ UNCHANGED <<now, ticks, cfg, db, redis, blCalls, blReturned, blStored, userCached, proc>>

\* A middleware called next(error): Express skips to errorHandler, which
\* sends the error response.
ErrorHandlerRun(r) ==
    /\ req[r].pc = "done"
    /\ req[r].op \in Middlewares \cup Gates
    /\ req[r].nextErr # Null
    /\ req' = [req EXCEPT ![r] =
                  [req[r] EXCEPT !.pc = "responded",
                                 !.res = Some(errorHandler(req[r].nextErr[1]))]]
    /\ UNCHANGED <<now, ticks, cfg, db, redis, blCalls, blReturned, blStored, userCached, proc>>

\* The response is out; the slot takes the next request.
ResponseSent(r) ==
    /\ req[r].pc = "responded"
    /\ req' = [req EXCEPT ![r] = Idle]
    /\ UNCHANGED <<now, ticks, cfg, db, redis, blCalls, blReturned, blStored, userCached, proc>>

NextChain ==
    \/ \E r \in Reqs : authMiddlewareStart(r)
    \/ \E r \in Reqs : optionalAuthMiddlewareStart(r)
    \/ \E r \in Reqs : BlacklistReply(r)
    \/ \E r \in Reqs : GetUserCacheReply(r)
    \/ \E r \in Reqs : GetUserDbReply(r)
    \/ \E r \in Reqs : GetUserSetCacheReply(r)
    \/ \E r \in Reqs : RequireRoleRun(r)
    \/ \E r \in Reqs : RequireEmailVerificationRun(r)
    \/ \E r \in Reqs : ErrorHandlerRun(r)
    \/ \E r \in Reqs : ResponseSent(r)
    \/ \E r \in Reqs : CallEnd(r)

ChainSpec == InitChain /\ [][NextChain]_vars

----------------------------------------------------------------------------
(* Token issuance: generateTokens and the verification of what it issued *)

\* config.jwt with the configured lifetimes
JwtConfigs ==
    {[secret |-> "s1", refreshSecret |-> x, expiresIn |-> e,
      refreshExpiresIn |-> JWT_REFRESH_EXPIRES_IN] :
        x \in SecretValues, e \in {ShortExp, JWT_EXPIRES_IN}}

InitTokens ==
    /\ now = 0
    /\ ticks = 0
    /\ cfg \in JwtConfigs
    /\ db = {UserRow("u1", "u1@example", "user", TRUE, TRUE)}
    /\ redis = <<>>
    /\ req = [r \in Reqs |-> Idle]
    /\ blCalls = 0
    /\ blReturned = {}
    /\ blStored = {}
    /\ userCached = Null
    /\ proc = NotStarted

\* A caller (login, refresh) calls generateTokens(user).
GenerateTokensCall(r) ==
    /\ req[r].pc = "idle"
    /\ \E user \in IssueUsers :
         req' = [req EXCEPT ![r] =
                    [pc |-> "issued", op |-> "generateTokens", user |-> user,
                     issuedAt |-> now, tokens |-> generateTokens(user, cfg, now),
                     kind |-> "", verifiedAt |-> 0, result |-> Null]]
    /\ UNCHANGED <<now, ticks, cfg, db, redis, blCalls, blReturned, blStored, userCached, proc>>

\* The issued token of one kind is verified under that kind: the access
\* token with verifyToken, the refresh token with verifyRefreshToken.
VerifyIssued(r) ==
    /\ req[r].pc = "issued"
    /\ \E kind \in TokenKinds :
         req' = [req EXCEPT ![r] =
                    [req[r] EXCEPT
                        !.pc = "done", !.kind = kind, !.verifiedAt = now,
                        !.result =
                            Some(IF kind = "access"
                                 THEN verifyToken(req[r].tokens.accessToken, cfg, now)
                                 ELSE verifyRefreshToken(req[r].tokens.refreshToken,
                                                         cfg, now))]]
    /\ UNCHANGED <<now, ticks, cfg, db, redis, blCalls, blReturned, blStored, userCached, proc>>

NextTokens ==
    \/ \E r \in Reqs : GenerateTokensCall(r)
    \/ \E r \in Reqs : VerifyIssued(r)
    \/ \E r \in Reqs : CallEnd(r)
    \/ Tick

TokenSpec == InitTokens /\ [][NextTokens]_vars

----------------------------------------------------------------------------
(* Properties *)

Finished(r, op) == req[r].pc = "done" /\ req[r].op = op

\* The request went on with no error: next() was called once, without argument.
Proceeds(rq) == rq.nextCalls = 1 /\ rq.nextErr = Null

\* The request was ended with the 401 AuthenticationError carrying message.
RejectedWith(rq, message) ==
    /\ rq.nextCalls = 1
    /\ rq.nextErr = Some(AuthenticationError(message))
    /\ rq.nextErr[1].statusCode = 401

\* The kind a token's payload names ("" for a string that is no JWT).
KindOf(token) == IF JwtDecode(token) = Null THEN "" ELSE JwtDecode(token)[1].tokenType

\* C1: after blacklistToken(t) has returned for a validly signed, unexpired
\* access token t, every authMiddleware run that starts afterwards and ends
\* before t's expiry ends with the 401 'Token has been revoked' and never
\* sets req.user.  (Stated for the runs whose revocation lookup did not fail.)
C1_RevokedAfterBlacklistReturns ==
    \A r \in Reqs :
        ( /\ Finished(r, "authMiddleware")
          /\ req[r].afterBl
          /\ KindOf(req[r].token) = "access"
          /\ ~req[r].lookupFailed
          /\ verifyToken(req[r].token, cfg, now).ok )
        => /\ RejectedWith(req[r], "Token has been revoked")
           /\ req[r].reqUser = Null

\* C2 as claimed: whenever isTokenBlacklisted(token) is true, authMiddleware
\* and optionalAuthMiddleware both end the request with the revocation error.
C2_RevokedRejectedInBothModes ==
    \A r \in Reqs :
        ( /\ req[r].pc = "done"
          /\ req[r].op \in Middlewares
          /\ req[r].blacklisted = Some(TRUE) )
        => RejectedWith(req[r], "Token has been revoked")

\* C2 as amended: whenever isTokenBlacklisted(token) is true no identity is
\* attached and nothing further is looked up; authMiddleware ends the request
\* with the 401 'Token has been revoked', optionalAuthMiddleware lets it
\* proceed without error and without req.user.
C2_RevokedNeverAuthenticated ==
    \A r \in Reqs :
        ( /\ req[r].pc = "done"
          /\ req[r].op \in Middlewares
          /\ req[r].blacklisted = Some(TRUE) )
        => /\ req[r].reqUser = Null
           /\ req[r].verified = Null
           /\ req[r].trips = 1
           /\ req[r].op = "authMiddleware"
                => RejectedWith(req[r], "Token has been revoked")
           /\ req[r].op = "optionalAuthMiddleware" => Proceeds(req[r])

\* C2 witness: an optionalAuthMiddleware run has ended on a revoked token.
C2_Witness ==
    \E r \in Reqs :
        /\ Finished(r, "optionalAuthMiddleware")
        /\ req[r].blacklisted = Some(TRUE)

\* C3: when the revocation-store write inside blacklistToken fails,
\* blacklistToken rejects instead of returning normally.
C3_BlacklistWriteFailureSurfaces ==
    \A r \in Reqs :
        (Finished(r, "blacklistToken") /\ req[r].setCacheFailed)
        => req[r].settled = "rejected"

\* C4: a validly signed, unexpired token is rejected where the other kind
\* is required, whatever the two secrets are: verifyRefreshToken rejects
\* every access token, and authMiddleware rejects every refresh token with
\* an invalid-token error.
C4_OtherKindRejected ==
    \A r \in Reqs :
        /\ ( /\ Finished(r, "verifyRefreshToken")
             /\ KindOf(req[r].token) = "access"
             /\ req[r].validAtStart )
           => req[r].settled = "rejected"
        /\ ( /\ Finished(r, "authMiddleware")
             /\ KindOf(req[r].token) = "refresh"
             /\ verifyRefreshToken(req[r].token, cfg, now).ok
             /\ req[r].blacklisted = Some(FALSE) )
           => /\ req[r].reqUser = Null
              /\ \/ RejectedWith(req[r], "Invalid token")
                 \/ RejectedWith(req[r], "Invalid token type")

\* C5: getUser succeeds whenever the persistent store returned the user,
\* also when the write-back to the user cache failed: the run does not end
\* with 'Failed to authenticate user', and an active user is attached.
C5_CacheWriteFailureTolerated ==
    \A r \in Reqs :
        ( /\ req[r].pc = "done"
          /\ req[r].op \in Middlewares
          /\ req[r].setCacheFailed )
        => /\ ~RejectedWith(req[r], "Failed to authenticate user")
           /\ req[r].user[1].isActive
                => req[r].reqUser = Some(Identity(req[r].user[1]))

\* C6: a refresh token that has a revocation marker is rejected by
\* verifyRefreshToken.
C6_RefreshConsultsRevocation ==
    \A r \in Reqs :
        ( /\ Finished(r, "verifyRefreshToken")
          /\ KindOf(req[r].token) = "refresh"
          /\ req[r].marked )
        => req[r].settled = "rejected"

\* C7: in required mode a request with a validly signed, unexpired,
\* non-revoked access token whose user record was found and is active ends
\* Authenticated: req.user holds the id, email, role and isEmailVerified of
\* the resolved record and next is called with no error.
C7_ValidTokenAuthenticated ==
    \A r \in Reqs :
        ( /\ Finished(r, "authMiddleware")
          /\ req[r].blacklisted = Some(FALSE)
          /\ req[r].verified = Some(TRUE)
          /\ KindOf(req[r].token) = "access"
          /\ req[r].user # Null
          /\ req[r].user[1].isActive )
        => /\ req[r].reqUser = Some(Identity(req[r].user[1]))
           /\ Proceeds(req[r])

\* C8: in required mode a request with no Bearer header and no accessToken
\* cookie is rejected with the 401 'Access token required' at once: no
\* revocation lookup, no verification, no user lookup, req.user unset.
C8_MissingCredentialRejected ==
    \A r \in Reqs :
        ( /\ req[r].op = "authMiddleware"
          /\ req[r].pc # "idle"
          /\ ~(req[r].headers.present /\ req[r].headers.bearer)
          /\ req[r].cookies.accessToken = Null )
        => /\ req[r].pc = "done"
           /\ RejectedWith(req[r], "Access token required")
           /\ req[r].nextErr[1].name = "AuthenticationError"
           /\ req[r].trips = 0
           /\ req[r].blacklisted = Null
           /\ req[r].verified = Null
           /\ req[r].user = Null
           /\ req[r].reqUser = Null

\* C8 witness: an authMiddleware run has ended on a request whose
\* authorization header is not a bearer header and that has no cookie.
C8_Witness ==
    \E r \in Reqs :
        /\ Finished(r, "authMiddleware")
        /\ req[r].headers = BasicHeader
        /\ req[r].cookies = NoCookies

\* C9: optionalAuthMiddleware never ends the request: whatever the
\* credential and whatever the cache and store calls do, it calls next once
\* with no error; with no credential req.user stays unset and nothing is
\* looked up.
C9_OptionalNeverTerminates ==
    \A r \in Reqs :
        Finished(r, "optionalAuthMiddleware")
        => /\ Proceeds(req[r])
           /\ NoToken(extractToken(req[r].headers, req[r].cookies))
                => (req[r].reqUser = Null /\ req[r].trips = 0)

\* C9 witness: an optionalAuthMiddleware run has ended after getUser threw
\* on a failed cache write.
C9_Witness ==
    \E r \in Reqs :
        /\ Finished(r, "optionalAuthMiddleware")
        /\ req[r].setCacheFailed

\* C10: a token that reaches verification and fails it (bad signature,
\* expired, or a kind other than access) ends a required-mode request with
\* a 401 ('Invalid token', 'Token expired' or 'Invalid token type') and lets
\* an optional-mode request proceed; in neither mode is req.user set, and
\* no user lookup is made.
C10_InvalidTokenOutcome ==
    \A r \in Reqs :
        ( /\ req[r].pc = "done"
          /\ req[r].op \in Middlewares
          /\ \/ req[r].verified = Some(FALSE)
             \/ (req[r].verified = Some(TRUE) /\ KindOf(req[r].token) # "access") )
        => /\ req[r].reqUser = Null
           /\ req[r].user = Null
           /\ req[r].op = "optionalAuthMiddleware" => Proceeds(req[r])
           /\ req[r].op = "authMiddleware" =>
                IF req[r].verified = Some(TRUE)
                THEN RejectedWith(req[r], "Invalid token type")
                ELSE IF SignedWith(req[r].token) = cfg.secret
                THEN RejectedWith(req[r], "Token expired")
                ELSE RejectedWith(req[r], "Invalid token")

\* C10 witness: an authMiddleware run has ended on a token that expired.
C10_Witness ==
    \E r \in Reqs :
        /\ Finished(r, "authMiddleware")
        /\ req[r].verified = Some(FALSE)
        /\ RejectedWith(req[r], "Token expired")

\* The run verified an access token that was not revoked and went on to getUser.
ReachedGetUser(rq) ==
    /\ rq.blacklisted = Some(FALSE)
    /\ rq.verified = Some(TRUE)
    /\ KindOf(rq.token) = "access"

\* C11: in required mode a verified access token whose user the cache and
\* the persistent store do not hold (the store answered null) is rejected
\* with 'User not found', and one whose record, from the cache or the store,
\* has isActive = false is rejected with 'User account is deactivated'; in
\* both cases req.user is not set.
C11_UnknownOrDeactivatedRejected ==
    \A r \in Reqs :
        (Finished(r, "authMiddleware") /\ ReachedGetUser(req[r]))
        => /\ (req[r].user = Null /\ req[r].trips = 3 /\ ~req[r].dbFailed)
                => (RejectedWith(req[r], "User not found") /\ req[r].reqUser = Null)
           /\ (req[r].user # Null /\ ~req[r].user[1].isActive)
                => ( /\ RejectedWith(req[r], "User account is deactivated")
                     /\ req[r].reqUser = Null )

\* C12 as claimed: once blacklistToken has written the marker of a token,
\* isTokenBlacklisted(token) is true at every time before the token's expiry
\* and false from the expiry on; a marker in the store always ends exactly at
\* its token's expiry (TTL = exp - now); and a blacklistToken call on a token
\* that has already expired issues no write and leaves no marker.  (The
\* lookups are those the store answers; a failed lookup is C13's case.)
C12_MarkerLivesUntilExpiry ==
    /\ \A token \in blStored :
          isTokenBlacklisted(redis, token, now, TRUE) <=> now < JwtDecode(token)[1].exp
    /\ \A token \in Tokens :
          BlacklistKey(token) \in DOMAIN redis
          => /\ JwtDecode(token) # Null
             /\ redis[BlacklistKey(token)].expireAt = JwtDecode(token)[1].exp
    /\ \A r \in Reqs :
          (Finished(r, "blacklistToken") /\ SignedWith(req[r].token) = cfg.secret)
          => IF req[r].validAtStart
             THEN req[r].trips = 1
             ELSE /\ req[r].trips = 0
                  /\ BlacklistKey(req[r].token) \notin DOMAIN redis

\* C12 as amended: the TTL blacklistToken passes is exactly exp - now at
\* the call; once the marker is written isTokenBlacklisted(token) is true at
\* every time before the token's expiry; the marker ends at the time of the
\* write plus that TTL, so never before the expiry and after it by no more
\* than the time that passed between the call and the write; and a
\* blacklistToken call on a token that has already expired issues no write.
C12_MarkerOutlivesByWriteDelay ==
    /\ \A token \in blStored :
          now < JwtDecode(token)[1].exp => isTokenBlacklisted(redis, token, now, TRUE)
    /\ \A token \in Tokens :
          BlacklistKey(token) \in DOMAIN redis
          => /\ JwtDecode(token) # Null
             /\ redis[BlacklistKey(token)].val = JSONstringify(JsBool(TRUE))
             /\ redis[BlacklistKey(token)].expireAt >= JwtDecode(token)[1].exp
    /\ \A r \in Reqs :
          (req[r].op = "blacklistToken" /\ req[r].trips = 1)
          => /\ req[r].ttl = JwtDecode(req[r].token)[1].exp - req[r].ttlAt
             /\ ( /\ req[r].pc = "done"
                  /\ ~req[r].setCacheFailed
                  /\ BlacklistKey(req[r].token) \in DOMAIN redis )
                => redis[BlacklistKey(req[r].token)].expireAt
                       - JwtDecode(req[r].token)[1].exp <= now - req[r].ttlAt
    /\ \A r \in Reqs :
          (Finished(r, "blacklistToken") /\ SignedWith(req[r].token) = cfg.secret)
          => IF req[r].validAtStart
             THEN req[r].trips = 1
             ELSE /\ req[r].trips = 0
                  /\ req[r].ttl = 0
                  /\ ~req[r].setCacheFailed

\* C12 witness: the expiry of a blacklisted token has been reached and its
\* marker is still in the store, because the write came after the call.
C12_Witness ==
    \E token \in blStored :
        /\ now >= JwtDecode(token)[1].exp
        /\ isTokenBlacklisted(redis, token, now, TRUE)

\* C13: when the revocation-store read fails, isTokenBlacklisted returns
\* false (it neither throws nor returns true), also for a token that has a
\* marker, and the middleware goes on to verify the token: the run is never
\* ended as revoked.
C13_LookupFailureIsNotBlacklisted ==
    /\ \A token \in Tokens : ~isTokenBlacklisted(redis, token, now, FALSE)
    /\ \A r \in Reqs :
          (req[r].op \in Middlewares /\ req[r].lookupFailed)
          => /\ req[r].blacklisted = Some(FALSE)
             /\ req[r].verified # Null
             /\ ~RejectedWith(req[r], "Token has been revoked")

\* C13 witness: an authMiddleware run whose revocation lookup failed has
\* authenticated a token whose marker is in the store.
C13_Witness ==
    \E r \in Reqs :
        /\ Finished(r, "authMiddleware")
        /\ req[r].lookupFailed
        /\ isTokenBlacklisted(redis, req[r].token, now, TRUE)
        /\ req[r].reqUser # Null

\* The run is past the user-cache lookup of getUser, which the cache answered.
CacheAnswered(rq) ==
    /\ rq.op \in Middlewares
    /\ ReachedGetUser(rq)
    /\ rq.pc \in {"findUnique", "setCache", "done"}
    /\ ~rq.cacheFailed

DeactivatedInStore(userId) ==
    \E u \in db : u.id = userId /\ ~u.isActive

\* C15: with the user deactivated in the persistent store, an authMiddleware
\* run on the user's valid token ends Authenticated, with the identity of
\* the cached snapshot, as long as an active snapshot cached less than 300
\* seconds ago answers its cache lookup, and ends with 'User account is
\* deactivated' and req.user unset when the record it gets is the
\* deactivated one.  (Stated for the runs whose cache and store lookups
\* did not fail.)
C15_StaleWindowThenDeactivated ==
    \A r \in Reqs :
        ( /\ Finished(r, "authMiddleware")
          /\ CacheAnswered(req[r])
          /\ ~req[r].dbFailed
          /\ DeactivatedInStore(req[r].userId) )
        => IF req[r].cachedBefore # Null /\ req[r].cachedBefore[1].isActive
           THEN /\ req[r].reqUser = Some(Identity(req[r].cachedBefore[1]))
                /\ Proceeds(req[r])
           ELSE (req[r].user # Null /\ ~req[r].user[1].isActive)
                => ( /\ RejectedWith(req[r], "User account is deactivated")
                     /\ req[r].reqUser = Null )

\* The lifetime config.jwt gives a token of the kind
LifetimeOf(kind, c) == IF kind = "access" THEN c.expiresIn ELSE c.refreshExpiresIn

\* C16: for every user and each kind, the token generateTokens produced
\* verifies under its own kind at every time before its expiry (the access
\* token with verifyToken, the refresh token with verifyRefreshToken), and
\* the claims returned carry the user's id, email and role, the tokenType
\* of the kind, and the issue and expiry times.
C16_IssuedTokenVerifiesUnderItsKind ==
    \A r \in Reqs :
        ( /\ Finished(r, "generateTokens")
          /\ req[r].verifiedAt < req[r].issuedAt + LifetimeOf(req[r].kind, cfg) )
        => /\ req[r].result[1].ok
           /\ LET claims == req[r].result[1].value[1] IN
              /\ claims.userId = req[r].user.id
              /\ claims.email = req[r].user.email
              /\ claims.role = req[r].user.role
              /\ claims.tokenType = req[r].kind
              /\ claims.iat = req[r].issuedAt
              /\ claims.exp = req[r].issuedAt + LifetimeOf(req[r].kind, cfg)

\* C16 witness: a refresh token issued under distinct secrets has been
\* verified with verifyRefreshToken some time after it was issued.
C16_Witness ==
    \E r \in Reqs :
        /\ Finished(r, "generateTokens")
        /\ req[r].kind = "refresh"
        /\ cfg.secret # cfg.refreshSecret
        /\ req[r].issuedAt < req[r].verifiedAt
        /\ req[r].result[1].ok

\* The middleware of the slot has returned (and errorHandler may have run).
Returned(r, op) == req[r].op = op /\ req[r].pc \in {"done", "responded"}

\* C17: requireRole(roles) calls next once: with the 401 AuthenticationError
\* when req.user is unset, with a 403 AuthorizationError when req.user is
\* set and its role is not among roles, and with no error exactly when
\* req.user is set and its role is among roles.
C17_RequireRoleOutcomes ==
    \A r \in Reqs :
        Returned(r, "requireRole")
        => /\ req[r].nextCalls = 1
           /\ IF req[r].reqUser = Null
              THEN /\ req[r].nextErr = Some(AuthenticationError("Authentication required"))
                   /\ req[r].nextErr[1].statusCode = 401
              ELSE IF req[r].reqUser[1].role \notin {req[r].roles[i] : i \in 1..Len(req[r].roles)}
              THEN /\ req[r].nextErr # Null
                   /\ req[r].nextErr[1].name = "AuthorizationError"
                   /\ req[r].nextErr[1].statusCode = 403
              ELSE req[r].nextErr = Null

\* C17 witness: requireRole has refused an authenticated user whose role is
\* not among the roles required.
C17_Witness ==
    \E r \in Reqs :
        /\ Finished(r, "requireRole")
        /\ req[r].reqUser # Null
        /\ req[r].reqUser[1].role = "user"
        /\ req[r].roles = <<"admin">>
        /\ req[r].nextErr # Null

\* C18: requireEmailVerification calls next once: with the 401
\* AuthenticationError when req.user is unset, with a 403 AuthorizationError
\* when req.user is set with isEmailVerified = false, and with no error
\* exactly when req.user is set with isEmailVerified = true.
C18_RequireEmailVerificationOutcomes ==
    \A r \in Reqs :
        Returned(r, "requireEmailVerification")
        => /\ req[r].nextCalls = 1
           /\ IF req[r].reqUser = Null
              THEN /\ req[r].nextErr = Some(AuthenticationError("Authentication required"))
                   /\ req[r].nextErr[1].statusCode = 401
              ELSE IF req[r].reqUser[1].isEmailVerified = FALSE
              THEN /\ req[r].nextErr = Some(AuthorizationError("Email verification required"))
                   /\ req[r].nextErr[1].statusCode = 403
              ELSE req[r].nextErr = Null

\* C18 witness: requireEmailVerification has refused an authenticated user
\* whose email is not verified.
C18_Witness ==
    \E r \in Reqs :
        /\ Finished(r, "requireEmailVerification")
        /\ req[r].reqUser # Null
        /\ ~req[r].reqUser[1].isEmailVerified
        /\ req[r].nextErr # Null

\* The messages of the authentication failures of authMiddleware.
AuthFailures ==
    {"Access token required", "Token has been revoked", "Invalid token",
     "Token expired", "Invalid token type", "User not found",
     "User account is deactivated", "Failed to authenticate user"}

\* C19: every authMiddleware run that does not authenticate passes one
\* error to next, a 401 with the code AUTHENTICATION_ERROR and one of the
\* failure messages; every refusal of requireRole and
\* requireEmailVerification of an authenticated user is a 403 with the code
\* AUTHORIZATION_ERROR; and errorHandler responds with exactly the status
\* and the code of the error it was passed.
C19_FailuresReachErrorHandler ==
    \A r \in Reqs :
        /\ (Returned(r, "authMiddleware") /\ req[r].reqUser = Null)
             => /\ req[r].nextCalls = 1
                /\ req[r].nextErr # Null
                /\ req[r].nextErr[1].statusCode = 401
                /\ req[r].nextErr[1].errorCode = "AUTHENTICATION_ERROR"
                /\ req[r].nextErr[1].message \in AuthFailures
        /\ ( /\ req[r].pc \in {"done", "responded"}
             /\ req[r].op \in Gates
             /\ req[r].reqUser # Null
             /\ req[r].nextErr # Null )
             => /\ req[r].nextErr[1].statusCode = 403
                /\ req[r].nextErr[1].errorCode = "AUTHORIZATION_ERROR"
        /\ req[r].pc = "responded"
             => /\ req[r].res # Null
                /\ req[r].res[1].status = req[r].nextErr[1].statusCode
                /\ req[r].res[1].status \in {401, 403}
                /\ req[r].res[1].json.error.statusCode = req[r].nextErr[1].statusCode
                /\ req[r].res[1].json.error.code = Some(req[r].nextErr[1].errorCode)
                /\ req[r].res[1].json.error.message = req[r].nextErr[1].message

\* C19 witness: errorHandler has answered the request of a deactivated
\* user that authMiddleware ended.
C19_Witness ==
    \E r \in Reqs :
        /\ req[r].pc = "responded"
        /\ req[r].op = "authMiddleware"
        /\ req[r].nextErr[1].message = "User account is deactivated"
        /\ req[r].res[1].status = 401

\* The token of the Authorization header of the request, if it is a bearer
\* header that carries one.
BearerTokenOf(headers) ==
    IF headers.present /\ headers.bearer /\ headers.rest # ""
    THEN Some(headers.rest) ELSE Null

\* C20: extractToken returns the bearer token of the Authorization header
\* when there is one, the accessToken cookie the request carries when there
\* is no bearer token, and null only when the request carries neither.
C20_HeaderThenCookie ==
    \A r \in Reqs :
        (req[r].op \in Middlewares /\ req[r].pc # "idle")
        => LET token == extractToken(req[r].headers, req[r].cookies)
               bearer == BearerTokenOf(req[r].headers) IN
           /\ bearer # Null => token = bearer
           /\ (bearer = Null /\ req[r].cookieHeader # Null)
                => token = req[r].cookieHeader
           /\ token = Null => (bearer = Null /\ req[r].cookieHeader = Null)

\* The part of Redis that holds the revocation markers, resp. the user cache.
RevocationStore(store) ==
    [k \in {x \in DOMAIN store : x[1] = BLACKLIST_PREFIX} |-> store[k]]

UserCache(store) ==
    [k \in {x \in DOMAIN store : x[1] = USER_CACHE_PREFIX} |-> store[k]]

\* The step is one of a run of authMiddleware or optionalAuthMiddleware in
\* slot r: its start, or the continuation after one of its awaits.
PipelineStep(r) ==
    /\ req'[r] # req[r]
    /\ req'[r].op \in Middlewares
    /\ req'[r].pc # "idle"

\* C21: no step of a run of authMiddleware or optionalAuthMiddleware,
\* whatever the run's outcome, changes the persistent user store or the
\* revocation store (the markers under blacklist:token:).
C21_PipelineLeavesIdentityStores ==
    [][\A r \in Reqs :
          PipelineStep(r)
          => /\ db' = db
             /\ RevocationStore(redis') = RevocationStore(redis)]_vars

\* C21 witness: with a revocation marker in the store, a run has ended
\* after getUser read the user from the persistent store and wrote the
\* record back to the user cache.
C21_Witness ==
    \E r \in Reqs :
        /\ req[r].pc = "done"
        /\ req[r].op \in Middlewares
        /\ req[r].source = "db"
        /\ ~req[r].setCacheFailed
        /\ UserKey(req[r].userId) \in DOMAIN redis
        /\ RevocationStore(redis) # <<>>

\* C22 as claimed: a run of authMiddleware or optionalAuthMiddleware issues
\* at most three external round trips on every path.
C22_AtMostThreeRoundTrips ==
    \A r \in Reqs : req[r].op \in Middlewares => req[r].trips <= 3

\* C22 as amended: a run issues at most four round trips, one after the
\* other: the revocation lookup, the user-cache lookup, the persistent-store
\* lookup and, when the store returned the user, the awaited write-back to
\* the user cache.  Only that path has four; a cache hit has two, a run
\* ended before getUser one or none.
C22_AtMostFourRoundTrips ==
    \A r \in Reqs :
        req[r].op \in Middlewares
        => /\ req[r].trips <= 4
           /\ req[r].trips = 4 <=> (req[r].source = "db" /\ req[r].pc \in {"setCache", "done"})
           /\ req[r].source = "cache" => req[r].trips = 2
           /\ (req[r].pc = "done" /\ req[r].verified # Some(TRUE)) => req[r].trips <= 1
           /\ req[r].pc = "isTokenBlacklisted" => req[r].trips = 1
           /\ req[r].pc = "getCache" => req[r].trips = 2
           /\ req[r].pc = "findUnique" => req[r].trips = 3

\* C22 witness: a run has ended after its fourth round trip, the write-back.
C22_Witness ==
    \E r \in Reqs :
        /\ Finished(r, "authMiddleware")
        /\ req[r].trips = 4
        /\ req[r].reqUser # Null

\* The step is one of getUser's write-back in slot r settling.
WriteBackStep(r) ==
    /\ req[r].pc = "setCache"
    /\ req[r].op \in Middlewares
    /\ req'[r] # req[r]

\* C23 as claimed: no step of a run of authMiddleware or
\* optionalAuthMiddleware writes to an external store: the revocation store
\* and the user cache are after the step as they were before it.
C23_AuthenticationWritesNothing ==
    [][\A r \in Reqs :
          PipelineStep(r)
          => /\ RevocationStore(redis') = RevocationStore(redis)
             /\ UserCache(redis') = UserCache(redis)]_vars

\* C23 as amended: a run never writes the revocation store or the
\* persistent store, and its only write is getUser's write-back after a
\* cache miss: the step at which that write settles leaves the user cache
\* as it was or with the entry of the token's user set to the record the
\* store returned, for 300 seconds; every other step leaves the user cache
\* as it was.  A request abandoned before that step has written nothing.
C23_OnlyTheWriteBackWrites ==
    [][\A r \in Reqs :
          PipelineStep(r)
          => /\ db' = db
             /\ RevocationStore(redis') = RevocationStore(redis)
             /\ IF WriteBackStep(r)
                THEN \/ redis' = redis
                     \/ redis' = RedisSetEx(redis, UserKey(req[r].userId),
                                            USER_CACHE_TTL,
                                            JSONstringify(JsObj(req[r].user[1])), now)
                ELSE UserCache(redis') = UserCache(redis)]_vars

\* C23 witness: a run that ended unauthenticated, on a deactivated user,
\* has left that user's record in the user cache.
C23_Witness ==
    \E r \in Reqs :
        /\ Finished(r, "authMiddleware")
        /\ req[r].reqUser = Null
        /\ req[r].source = "db"
        /\ getCache(redis, UserKey(req[r].userId), now, TRUE) = JsObj(req[r].user[1])

----------------------------------------------------------------------------
(* Concurrent requests of one user around the deactivation of that user.
   Time is counted from the deactivation: the requests before it all run at
   time 0, and the clock advances once the user is deactivated. *)

\* Two requests are handled at a time.
Slots == {"h1", "h2"}

\* The clock advances by the time a store call takes, or by just under the
\* time a user-cache entry lives.
RaceTickSteps == {WriteDelay, USER_CACHE_TTL - 1}

InitRace ==
    /\ now = 0
    /\ ticks = 0
    /\ cfg = [secret |-> "s1", refreshSecret |-> "s2"]
    /\ db = {UserRow("u1", "u1@example", "user", TRUE, TRUE)}
    /\ redis = <<>>
    /\ req = [r \in Slots |-> Idle]
    /\ blCalls = 0
    /\ blReturned = {}
    /\ blStored = {}
    /\ userCached = Null
    /\ proc = NotStarted

\* The user sends a request with the valid access token through authMiddleware.
AuthRequest(r) ==
    /\ req[r].pc = "idle"
    /\ req' = [req EXCEPT ![r] =
                  authBegin([Fresh("authMiddleware", BearerHeader("tA"), NoCookies, "")
                                EXCEPT !.startedAt = now],
                            cfg, now, blReturned)]
    /\ UNCHANGED <<now, ticks, cfg, db, redis, blCalls, blReturned, blStored, userCached, proc>>

\* Time passes after the deactivation; Redis drops the keys whose time has come.
TickAfterDeactivation ==
    /\ ticks < MaxTicks
    /\ DeactivatedInStore("u1")
    /\ \E d \in RaceTickSteps :
         /\ now' = now + d
         /\ redis' = RedisExpire(redis, now + d)
         /\ userCached' = IF CachedWithinTtl(userCached, now + d) = Null
                          THEN Null ELSE userCached
    /\ ticks' = ticks + 1
    /\ UNCHANGED <<cfg, db, req, blCalls, blReturned, blStored, proc>>

NextRace ==
    \/ \E r \in Slots : AuthRequest(r)
    \/ \E r \in Slots : BlacklistReply(r)
    \/ \E r \in Slots : GetUserCacheReply(r)
    \/ \E r \in Slots : GetUserDbReply(r)
    \/ \E r \in Slots : GetUserSetCacheReply(r)
    \/ \E r \in Slots : CallEnd(r)
    \/ DeactivateUser
    \/ TickAfterDeactivation

RaceSpec == InitRace /\ [][NextRace]_vars

\* C24: with the user deactivated at time 0, whatever the interleaving of
\* the concurrent requests with the deactivation, no authMiddleware run that
\* starts more than 300 seconds after the deactivation ends Authenticated.
C24_StaleAtMostTtl ==
    \A r \in Slots :
        ( /\ Finished(r, "authMiddleware")
          /\ DeactivatedInStore(req[r].userId)
          /\ req[r].startedAt > USER_CACHE_TTL )
        => req[r].reqUser = Null

----------------------------------------------------------------------------
(* The two middlewares on the same request and the same state of the stores *)

\* How the external calls of one run answer: the revocation lookup, the
\* user-cache lookup, the persistent store and the cache write-back, each
\* succeeding or failing.
Answers == [bl : BOOLEAN, cache : BOOLEAN, db : BOOLEAN, set : BOOLEAN]

\* A run of the middleware op from its start to its call of next, with the
\* stores as given and the external calls answering as in ok: each stage
\* takes the request where the stage before left it.
RunBlacklist(op, rq, c, t, store, ok) ==
    IF rq.pc # "isTokenBlacklisted" THEN rq
    ELSE IF op = "authMiddleware"
         THEN authAfterBlacklist([rq EXCEPT !.lookupFailed = ~ok.bl],
                                 isTokenBlacklisted(store, rq.token, t, ok.bl), c, t)
         ELSE optionalAfterBlacklist([rq EXCEPT !.lookupFailed = ~ok.bl],
                                     isTokenBlacklisted(store, rq.token, t, ok.bl), c, t)

RunGetUser(rq, t, store, rows, ok) ==
    LET afterCache(r) ==
            IF r.pc # "getCache" THEN r
            ELSE getUserAfterCache([r EXCEPT !.cacheFailed = ~ok.cache],
                                   getCache(store, UserKey(r.userId), t, ok.cache))
        afterDb(r) ==
            IF r.pc # "findUnique" THEN r
            ELSE getUserAfterDb(r, ok.db, findUnique(rows, r.userId))
        afterSet(r) ==
            IF r.pc # "setCache" THEN r ELSE getUserAfterSetCache(r, ok.set)
    IN  afterSet(afterDb(afterCache(rq)))

RunToEnd(op, headers, cookies, c, t, store, rows, returned, ok) ==
    RunGetUser(RunBlacklist(op,
                            IF op = "authMiddleware"
                            THEN authBegin(Fresh(op, headers, cookies, ""), c, t, returned)
                            ELSE optionalBegin(Fresh(op, headers, cookies, ""), c, t,
                                               returned),
                            c, t, store, ok),
               t, store, rows, ok)

\* The store after the run: getUser's write-back, when the run made it.
StoreAfterRun(run, store, t, ok) ==
    IF run.source = "db" /\ run.user # Null
    THEN setCache(store, UserKey(run.userId), JsObj(run.user[1]), USER_CACHE_TTL,
                  t, ok.set).store
    ELSE store

\* The states of Redis the comparison starts from: empty or with the
\* marker of tA, and with no record of u1 cached or with any record of u1
\* cached (which need not be the one the persistent store holds now).
StoreStates ==
    LET markers == {<<>>, setCache(<<>>, BlacklistKey("tA"), JsBool(TRUE),
                                   blacklistTtl("tA", 0), 0, TRUE).store}
    IN  markers
        \cup {setCache(m, UserKey("u1"), JsObj(u), USER_CACHE_TTL, 0, TRUE).store :
                 m \in markers, u \in UserRows}

InitModes ==
    /\ now \in {0, ShortExp}
    /\ ticks = 0
    /\ cfg \in {[secret |-> "s1", refreshSecret |-> x] : x \in SecretValues}
    /\ db \in {{}} \cup {{u} : u \in UserRows}
    /\ redis \in StoreStates
    /\ req = [r \in Reqs |-> Idle]
    /\ blCalls = 0
    /\ blReturned = {}
    /\ blStored = {t \in {"tA"} : BlacklistKey(t) \in DOMAIN redis}
    /\ userCached = Null
    /\ proc = NotStarted

\* One request is put through authMiddleware and through
\* optionalAuthMiddleware on the same state, with the same answers of the
\* external calls.
RunBothModes(r) ==
    /\ req[r].pc = "idle"
    /\ \E in \in RequestInputs(cfg), ok \in Answers :
         LET required == RunToEnd("authMiddleware", in[1], in[2], cfg, now, redis,
                                  db, blReturned, ok)
             optional == RunToEnd("optionalAuthMiddleware", in[1], in[2], cfg, now,
                                  redis, db, blReturned, ok) IN
         /\ req' = [req EXCEPT ![r] =
                       [pc |-> "done", op |-> "bothModes", headers |-> in[1],
                        cookies |-> in[2], answers |-> ok,
                        required |-> required, optional |-> optional]]
         /\ redis' = StoreAfterRun(required, redis, now, ok)
    /\ UNCHANGED <<now, ticks, cfg, db, blCalls, blReturned, blStored, userCached, proc>>

NextModes ==
    \/ \E r \in Reqs : RunBothModes(r)
    \/ \E r \in Reqs : CallEnd(r)

ModesSpec == InitModes /\ [][NextModes]_vars

\* C25: on the same request, the same state of the revocation store, the
\* user cache and the persistent store, and the same answers of the store
\* calls, optionalAuthMiddleware attaches an identity exactly when
\* authMiddleware ends Authenticated (req.user set, next called with no
\* error), and it is the same identity; and optionalAuthMiddleware makes
\* the same store calls.
C25_OptionalAttachesWhenRequiredAuthenticates ==
    \A r \in Reqs :
        Finished(r, "bothModes")
        => LET required == req[r].required
               optional == req[r].optional IN
           /\ optional.reqUser # Null <=> (required.reqUser # Null /\ Proceeds(required))
           /\ optional.reqUser = required.reqUser
           /\ required.reqUser = Null => required.nextErr # Null
           /\ optional.trips = required.trips

\* C25 witness: both middlewares have attached the identity of an active
\* record the user cache held while the persistent store holds the user as
\* deactivated.
C25_Witness ==
    \E r \in Reqs :
        /\ Finished(r, "bothModes")
        /\ req[r].optional.reqUser # Null
        /\ req[r].optional.source = "cache"
        /\ DeactivatedInStore("u1")

----------------------------------------------------------------------------
(* The middlewares when the next function they are handed throws *)

\* What the downstream handler threw.
DownstreamError == [name |-> "Error", message |-> "handler failed", statusCode |-> 0,
                    errorCode |-> ""]

\* The middleware's last call of next threw.  In authMiddleware and
\* optionalAuthMiddleware a call made in the try block is followed by the
\* catch block, which calls next again; a call made in the catch block, and
\* any call of requireRole and requireEmailVerification (which have no try),
\* lets the exception leave the middleware.
afterNextThrew(rq) ==
    IF rq.op = "authMiddleware" /\ ~rq.inCatch
    THEN authCatch(rq, DownstreamError)
    ELSE IF rq.op = "optionalAuthMiddleware" /\ ~rq.inCatch
    THEN optionalCatch(rq, DownstreamError)
    ELSE [rq EXCEPT !.pc = "threw", !.settled = "rejected",
                    !.thrown = DownstreamError.message]

\* The handler that next ran throws, and the exception comes out of the
\* middleware's call of next.
NextThrows(r) ==
    /\ req[r].pc = "done"
    /\ req[r].op \in Middlewares \cup Gates
    /\ req[r].nextCalls >= 1
    /\ req' = [req EXCEPT ![r] = afterNextThrew(req[r])]
    /\ UNCHANGED <<now, ticks, cfg, db, redis, blCalls, blReturned, blStored, userCached, proc>>

\* The exception has left the middleware; the slot takes the next request.
RequestAborted(r) ==
    /\ req[r].pc = "threw"
    /\ req' = [req EXCEPT ![r] = Idle]
    /\ UNCHANGED <<now, ticks, cfg, db, redis, blCalls, blReturned, blStored, userCached, proc>>

NextThrowing ==
    \/ \E r \in Reqs : authMiddlewareStart(r)
    \/ \E r \in Reqs : optionalAuthMiddlewareStart(r)
    \/ \E r \in Reqs : BlacklistReply(r)
    \/ \E r \in Reqs : GetUserCacheReply(r)
    \/ \E r \in Reqs : GetUserDbReply(r)
    \/ \E r \in Reqs : GetUserSetCacheReply(r)
    \/ \E r \in Reqs : RequireRoleRun(r)
    \/ \E r \in Reqs : RequireEmailVerificationRun(r)
    \/ \E r \in Reqs : NextThrows(r)
    \/ \E r \in Reqs : RequestAborted(r)
    \/ \E r \in Reqs : CallEnd(r)

ThrowingSpec == Init /\ [][NextThrowing]_vars

\* C26: every run of authMiddleware, optionalAuthMiddleware, requireRole
\* and requireEmailVerification that has ended has called next exactly
\* once, also when a store call failed and also when the call of next threw.
C26_NextExactlyOnce ==
    \A r \in Reqs :
        (req[r].op \in Middlewares \cup Gates /\ req[r].pc \in {"done", "threw"})
        => req[r].nextCalls = 1

----------------------------------------------------------------------------
(* app.ts initializeRoutes and the map router: which middlewares a request
   passes before the handler of its endpoint *)

Mount(path, middlewares, router) ==
    [path |-> path, middlewares |-> middlewares, router |-> router]

\* app.use(`${apiPrefix}<path>`, ...middlewares, router)
Mounts ==
    {Mount("/health", <<>>, "healthRoutes"),
     Mount("/auth", <<>>, "authRoutes"),
     Mount("/users", <<"authMiddleware">>, "userRoutes"),
     Mount("/vehicles", <<"authMiddleware">>, "vehicleRoutes"),
     Mount("/routes", <<"authMiddleware">>, "routeRoutes"),
     Mount("/charging-stations", <<>>, "chargingStationRoutes"),
     Mount("/map", <<>>, "mapRoutes")}

\* router.get / router.post of the map router: the middlewares of the
\* route, and whether its handler calls the upstream map service.
MapRoute(path, middlewares, callsUpstream) ==
    [path |-> path, middlewares |-> middlewares, callsUpstream |-> callsUpstream]

MapRoutes ==
    {MapRoute("/geocode", <<"authMiddleware">>, TRUE),
     MapRoute("/reverse-geocode", <<"authMiddleware">>, TRUE),
     MapRoute("/route", <<"authMiddleware">>, TRUE),
     MapRoute("/trip", <<"authMiddleware">>, TRUE),
     MapRoute("/charging-stations", <<"authMiddleware">>, TRUE),
     MapRoute("/distance", <<"authMiddleware">>, FALSE),
     MapRoute("/styles", <<"authMiddleware">>, FALSE)}

\* A router of the application whose routes are not part of the map router:
\* its handlers are reached once the middlewares of the mount have passed.
RouterRoot == MapRoute("", <<>>, FALSE)

\* Chain made of the middlewares of the mount only
Chain_MountOnly(mount, route) == mount.middlewares

\* The middlewares Express runs before the handler of a route of a mounted
\* router: those of the mount, then those of the route.
Chain(mount, route) == mount.middlewares \o route.middlewares

\* The routes of a mounted router.
RoutesOf(router) == IF router = "mapRoutes" THEN MapRoutes ELSE {RouterRoot}

\* The endpoints the application serves: the routes of the map router under
\* its mount, the root of every other router.
Endpoints ==
    UNION {{[path |-> m.path \o rt.path, middlewares |-> Chain(m, rt),
             callsUpstream |-> rt.callsUpstream] : rt \in RoutesOf(m.router)} :
              m \in Mounts}

EndpointAt(path) == CHOOSE e \in Endpoints : e.path = path

\* Express routes a request to an endpoint: the first middleware of the
\* chain runs (every chain is empty or authMiddleware alone), or the
\* handler is next.
RouteRequest(r) ==
    /\ req[r].pc = "idle"
    /\ \E e \in Endpoints, in \in RequestInputs(cfg) :
         \E sent \in CookieHeaders(in[1], in[2]) :
            LET rq == [Fresh("authMiddleware", in[1], in[2], "")
                          EXCEPT !.cookieHeader = sent, !.route = e.path] IN
            req' = [req EXCEPT ![r] =
                       IF e.middlewares = <<>>
                       THEN [rq EXCEPT !.op = "handler", !.pc = "handler"]
                       ELSE authBegin(rq, cfg, now, blReturned)]
    /\ UNCHANGED <<now, ticks, cfg, db, redis, blCalls, blReturned, blStored, userCached, proc>>

\* The handler of the endpoint executes: after the last middleware of the
\* chain called next() with no error, or at once when the chain is empty.
\* A handler that calls the upstream map service does so when the request
\* passes its validation.
HandlerRun(r) ==
    /\ req[r].route # ""
    /\ \/ req[r].pc = "handler"
       \/ /\ req[r].pc = "done"
          /\ req[r].op = "authMiddleware"
          /\ req[r].nextCalls = 1 /\ req[r].nextErr = Null
    /\ \E valid \in BOOLEAN :
         req' = [req EXCEPT ![r] =
                    [req[r] EXCEPT
                        !.pc = "responded", !.handled = TRUE,
                        !.upstream = EndpointAt(req[r].route).callsUpstream /\ valid,
                        !.res = Some([status |-> IF valid THEN 200 ELSE 400,
                                      json |-> [success |-> valid]])]]
    /\ UNCHANGED <<now, ticks, cfg, db, redis, blCalls, blReturned, blStored, userCached, proc>>

NextRoutes ==
    \/ \E r \in Reqs : RouteRequest(r)
    \/ \E r \in Reqs : BlacklistReply(r)
    \/ \E r \in Reqs : GetUserCacheReply(r)
    \/ \E r \in Reqs : GetUserDbReply(r)
    \/ \E r \in Reqs : GetUserSetCacheReply(r)
    \/ \E r \in Reqs : HandlerRun(r)
    \/ \E r \in Reqs : ErrorHandlerRun(r)
    \/ \E r \in Reqs : ResponseSent(r)

RoutesSpec == InitChain /\ [][NextRoutes]_vars

\* The endpoints the claim names.
ProtectedPaths ==
    {"/users", "/vehicles", "/routes", "/map/geocode", "/map/reverse-geocode",
     "/map/route", "/map/trip", "/map/charging-stations", "/map/distance",
     "/map/styles"}

\* C27: the handler of an endpoint under /users, /vehicles, /routes or of
\* the map router executes, and the upstream map service is called, only on
\* a request on which authMiddleware ran to its end, set req.user and called
\* next with no error; a request authMiddleware ended with an error gets
\* the error response and reaches neither.
C27_ProtectedHandlersNeedAuthentication ==
    \A r \in Reqs :
        req[r].route \in ProtectedPaths
        => /\ (req[r].handled \/ req[r].upstream)
                => /\ req[r].op = "authMiddleware"
                   /\ ReachedGetUser(req[r])
                   /\ req[r].reqUser # Null
                   /\ req[r].user # Null /\ req[r].user[1].isActive
                   /\ req[r].nextCalls = 1
                   /\ req[r].nextErr = Null
           /\ (req[r].pc = "responded" /\ req[r].reqUser = Null)
                => /\ ~req[r].handled
                   /\ ~req[r].upstream
                   /\ req[r].res[1].status = 401

\* C27 witness: the handler of /map/geocode has called the upstream map
\* service, on an authenticated request.
C27_Witness ==
    \E r \in Reqs :
        /\ req[r].route = "/map/geocode"
        /\ req[r].handled
        /\ req[r].upstream
        /\ req[r].reqUser # Null

----------------------------------------------------------------------------
(* The server process (index.ts): start, then shutdown on a signal.  The
   clock runs freely until a shutdown timer is armed, and from then on
   never past the earliest deadline without the timer firing. *)

\* signals delivered to one process
MaxSignals == 2

ServerTickSteps == {SHUTDOWN_TIMEOUT \div 2, SHUTDOWN_TIMEOUT}

MinDeadline(p) == CHOOSE d \in p.timers : \A e \in p.timers : d <= e

OnlyProc == UNCHANGED <<now, ticks, cfg, db, redis, req, blCalls, blReturned, blStored,
                        userCached>>

\* new Server().start()
ServerStart ==
    /\ proc.phase = "created"
    /\ proc' = serverStart(proc)
    /\ OnlyProc

ConnectDatabaseReply ==
    /\ Alive(proc) /\ proc.phase = "connectDatabase"
    /\ \E connected \in BOOLEAN, tested \in BOOLEAN :
         proc' = afterConnectDatabase(proc, connected, tested, now)
    /\ OnlyProc

ConnectRedisReply ==
    /\ Alive(proc) /\ proc.phase = "connectRedis"
    /\ \E connected \in BOOLEAN, pinged \in BOOLEAN :
         proc' = afterConnectRedis(proc, connected, pinged, now)
    /\ OnlyProc

\* SIGTERM or SIGINT before process.on has installed a handler: the
\* default disposition ends the process.
DefaultSignal ==
    /\ Alive(proc) /\ proc.phase # "created" /\ ~proc.handlers
    /\ proc' = [proc EXCEPT !.killed = TRUE, !.exitAt = now]
    /\ OnlyProc

\* SIGTERM or SIGINT with the handlers installed
Signal ==
    /\ Alive(proc) /\ proc.handlers
    /\ proc.signals < MaxSignals
    /\ proc' = gracefulShutdown(proc, now)
    /\ OnlyProc

\* The last connection of the closing HTTP server ends.
ConnectionsEnd ==
    /\ Alive(proc) /\ proc.closing /\ ~proc.drained
    /\ proc' = [proc EXCEPT !.drained = TRUE]
    /\ OnlyProc

\* The 'close' event of the HTTP server calls a callback of server.close.
CloseCallbackRuns(i) ==
    /\ Alive(proc) /\ proc.drained
    /\ proc.seqs[i] = "registered"
    /\ proc' = closeCallback(proc, i)
    /\ OnlyProc

DisconnectDatabaseReply(i) ==
    /\ Alive(proc)
    /\ proc.seqs[i] = "disconnectDatabase"
    /\ \E ok \in BOOLEAN, isOpen \in IsOpenValues(proc) :
         proc' = afterDisconnectDatabase(proc, i, ok, isOpen, now)
    /\ OnlyProc

DisconnectRedisReply(i) ==
    /\ Alive(proc)
    /\ proc.seqs[i] = "disconnectRedis"
    /\ \E ok \in BOOLEAN : proc' = afterDisconnectRedis(proc, i, ok, now)
    /\ OnlyProc

\* The callback of setTimeout runs at its deadline.
TimerFires ==
    /\ Alive(proc)
    /\ \E d \in proc.timers : d <= now
    /\ proc' = ProcessExit(Logged(proc, "forced shutdown"), 1, now)
    /\ OnlyProc

\* 'uncaughtException' or 'unhandledRejection'
UncaughtError ==
    /\ Alive(proc) /\ proc.handlers
    /\ proc' = ProcessExit(Logged(proc, "uncaught"), 1, now)
    /\ OnlyProc

ServerTick ==
    /\ Alive(proc) /\ proc.phase # "created"
    /\ \E d \in ServerTickSteps :
         /\ IF proc.timers = {} THEN ticks < MaxTicks
                                ELSE now + d <= MinDeadline(proc)
         /\ now' = now + d
    /\ ticks' = IF proc.timers = {} THEN ticks + 1 ELSE ticks
    /\ UNCHANGED <<cfg, db, redis, req, blCalls, blReturned, blStored, userCached, proc>>

NextServer ==
    \/ ServerStart
    \/ ConnectDatabaseReply
    \/ ConnectRedisReply
    \/ DefaultSignal
    \/ Signal
    \/ ConnectionsEnd
    \/ \E i \in 1..MaxSignals : i <= Len(proc.seqs) /\ CloseCallbackRuns(i)
    \/ \E i \in 1..MaxSignals : i <= Len(proc.seqs) /\ DisconnectDatabaseReply(i)
    \/ \E i \in 1..MaxSignals : i <= Len(proc.seqs) /\ DisconnectRedisReply(i)
    \/ TimerFires
    \/ UncaughtError
    \/ ServerTick

ServerSpec == InitRace /\ [][NextServer]_vars

\* Node runs a due timer and lets time pass.
ServerLiveSpec == ServerSpec /\ WF_vars(ServerTick) /\ WF_vars(TimerFires)

\* the places of an event in the log
At(log, event) == {i \in 1..Len(log) : log[i] = event}

Before(log, a, b) == \A j \in At(log, b) : \E i \in At(log, a) : i < j

\* C28: the server listens only after the database connection and then the
\* Redis connection have succeeded, in that order, the Redis connection
\* being attempted only once the database is connected; when a connection
\* fails the process exits with code 1 and has never listened.
C28_ListensOnlyWhenConnected ==
    /\ Before(proc.log, "database connected", "connectRedis")
    /\ Before(proc.log, "connectRedis", "redis connected")
    /\ Before(proc.log, "redis connected", "listen")
    /\ proc.listening => At(proc.log, "listen") # {}
    /\ At(proc.log, "connection failed") # {}
         => /\ proc.exit = Some(1)
            /\ At(proc.log, "listen") = {}
            /\ ~proc.listening

C28_Witness ==
    /\ proc.listening
    /\ proc.log = <<"connectDatabase", "database connected", "connectRedis",
                    "redis connected", "listen">>

Signalled == proc.signalAt # Null

Exited == proc.exit # Null

LastEvents(log, n) == IF Len(log) < n THEN <<>> ELSE SubSeq(log, Len(log) - n + 1, Len(log))

ShutdownInOrder ==
    /\ Before(proc.log, "signal", "HTTP server closed")
    /\ Before(proc.log, "HTTP server closed", "Database disconnected")
    /\ Before(proc.log, "Database disconnected", "Redis disconnected")
    /\ (Signalled /\ proc.exit = Some(0))
         => /\ LastEvents(proc.log, 2) = <<"Redis disconnected", "exit">>
            /\ \E i \in 1..Len(proc.seqs) : proc.seqs[i] = "done"
            /\ proc.dbConn = "closed"
            /\ proc.redisConn # "open"
            /\ proc.signals = 1 => proc.redisConn = "closed"

DisconnectFailureExitsWithOne ==
    At(proc.log, "disconnect failed") # {}
        => proc.exit = Some(1) /\ LastEvents(proc.log, 2) = <<"disconnect failed", "exit">>

ExitsWithinTimeout ==
    Signalled =>
        /\ now <= proc.signalAt[1] + SHUTDOWN_TIMEOUT
        /\ Exited => proc.exitAt <= proc.signalAt[1] + SHUTDOWN_TIMEOUT
        /\ At(proc.log, "forced shutdown") # {}
             => /\ proc.exit = Some(1)
                /\ proc.exitAt = proc.signalAt[1] + SHUTDOWN_TIMEOUT

----------------------------------------------------------------------------
(* incrementRateLimit (config/redis.ts) called from two handlers at once.
   A counter in Redis is [val, expireAt]; expireAt is Null for a key
   without a time to live. *)

\* windowSeconds: number = 60
DEFAULT_WINDOW == 60

\* a counter this high is hit no more
MaxHits == 3

RateKeys == {"rate:a", "rate:b"}

RateTickSteps == {1, DEFAULT_WINDOW}

\* Redis: keys whose time to live has run out are gone
RedisLive(store, t) ==
    [k \in {x \in DOMAIN store : store[x].expireAt = Null \/ t < store[x].expireAt[1]}
        |-> store[k]]

\* Redis INCR: a missing key counts from 0 and is created without a time to
\* live; an existing key keeps the one it has.
RedisIncr(store, key, t) ==
    LET live == RedisLive(store, t) IN
    [k \in DOMAIN live \cup {key} |->
        IF k # key THEN live[k]
        ELSE IF key \in DOMAIN live
             THEN [live[key] EXCEPT !.val = @ + 1]
             ELSE [val |-> 1, expireAt |-> Null]]

\* Redis EXPIRE key seconds
RedisExpireKey(store, key, seconds, t) ==
    LET live == RedisLive(store, t) IN
    [k \in DOMAIN live |->
        IF k = key THEN [live[k] EXCEPT !.expireAt = Some(t + seconds)] ELSE live[k]]

\* incrementRateLimit(key, windowSeconds) up to its first await
rateBegin(key, windowSeconds) ==
    [pc |-> "incr", op |-> "incrementRateLimit", key |-> key,
     windowSeconds |-> windowSeconds, current |-> 0, threw |-> FALSE]

\* after await redisClient.incr(key): a failed command goes to the catch,
\* which rethrows; a first hit goes on to expire; a later one returns.
rateAfterIncr(rq, ok, current) ==
    IF ~ok THEN [rq EXCEPT !.pc = "done", !.threw = TRUE]
    ELSE [rq EXCEPT !.current = current,
                    !.pc = IF current = 1 THEN "expire" ELSE "done"]

\* after await redisClient.expire(key, windowSeconds)
rateAfterExpire(rq, ok) ==
    IF ~ok THEN [rq EXCEPT !.pc = "done", !.threw = TRUE]
    ELSE [rq EXCEPT !.pc = "done"]

OnlyRate == UNCHANGED <<now, ticks, cfg, db, blCalls, blReturned, blStored, userCached, proc>>

RateCall(r) ==
    /\ req[r].pc = "idle"
    /\ \E key \in RateKeys :
         /\ key \in DOMAIN redis => redis[key].val < MaxHits
         /\ req' = [req EXCEPT ![r] = rateBegin(key, DEFAULT_WINDOW)]
    /\ UNCHANGED redis
    /\ OnlyRate

IncrReply(r) ==
    /\ req[r].pc = "incr"
    /\ \E ok \in BOOLEAN :
         LET store == RedisIncr(redis, req[r].key, now) IN
         /\ redis' = IF ok THEN store ELSE redis
         /\ req' = [req EXCEPT ![r] = rateAfterIncr(req[r], ok, store[req[r].key].val)]
    /\ OnlyRate

ExpireReply(r) ==
    /\ req[r].pc = "expire"
    /\ \E ok \in BOOLEAN :
         /\ redis' = IF ok THEN RedisExpireKey(redis, req[r].key, req[r].windowSeconds, now)
                     ELSE redis
         /\ req' = [req EXCEPT ![r] = rateAfterExpire(req[r], ok)]
    /\ OnlyRate

RateTick ==
    /\ ticks < MaxTicks
    /\ \E d \in RateTickSteps :
         /\ now' = now + d
         /\ redis' = RedisLive(redis, now + d)
    /\ ticks' = ticks + 1
    /\ UNCHANGED <<cfg, db, req, blCalls, blReturned, blStored, userCached, proc>>

NextRate ==
    \/ \E r \in Slots : RateCall(r)
    \/ \E r \in Slots : IncrReply(r)
    \/ \E r \in Slots : ExpireReply(r)
    \/ \E r \in Slots : CallEnd(r)
    \/ RateTick

RateSpec == InitRace /\ [][NextRate]_vars

BetweenIncrAndExpire(key) == \E r \in Slots : req[r].pc = "expire" /\ req[r].key = key

\* C30: once no incrementRateLimit call stands between its incr and its
\* expire on a key, a counter of at least 1 under that key has a time to
\* live of at most windowSeconds, whatever calls were made, concurrent
\* ones and ones whose expire failed included.
C30_EveryCounterExpires ==
    \A key \in DOMAIN redis :
        (redis[key].val >= 1 /\ ~BetweenIncrAndExpire(key))
            => /\ redis[key].expireAt # Null
               /\ redis[key].expireAt[1] - now <= DEFAULT_WINDOW

====
